---------------------------- MODULE Spec2Model ----------------------------
(***************************************************************************)
(* Model of the chipset BOM + XY layout tool in its two revisions:         *)
(*   BOM.py     class LayoutApp    (tuning BOMs, production BOM)           *)
(*   BOM_V2.py  class LayoutAppV2  (board file with versions V0, V1, ...)  *)
(*                                                                         *)
(* Text is modelled as a sequence of one-character strings, so that        *)
(* str.strip, str.upper, the digit filter and the concatenation of value   *)
(* and unit are computed character by character as the Python code does.   *)
(* A Python dict is modelled as a record [keys, map]: keys is the          *)
(* insertion order of the keys (which dict iteration follows), map the     *)
(* key -> value function.                                                  *)
(***************************************************************************)
EXTENDS Integers, Sequences, FiniteSets, TLC

VARIABLES
    rev,                    \* which revision runs: "BOM" or "BOM_V2"
    xy_data,                \* self.xy_data: ref -> component record
    raw_xy_data,            \* self.raw_xy_data: ref -> raw coordinates
    production_bom,         \* self.production_bom (None or the table)
    production_bom_headers, \* LayoutApp.production_bom_headers
    tuning_boms,            \* LayoutApp.tuning_boms
    tuning_var,             \* LayoutApp.tuning_var (selected radio button)
    scale_factor,           \* self.scale_factor
    box_scale,              \* self.box_scale, in hundredths
    current_board,          \* LayoutAppV2.current_board (None or a Board)
    current_board_version,  \* LayoutAppV2.current_board_version
    boxes,                  \* the ComponentBox objects drawn by the last redraw
    diff_window,            \* the open "Board Version Differences" window, or None
    fp                      \* the workbook an ingestion run feeds to
                            \* load_production_bom; None in the runs of the
                            \* whole application, which choose a file per call

vars == <<rev, xy_data, raw_xy_data, production_bom, production_bom_headers,
          tuning_boms, tuning_var, scale_factor, box_scale, current_board,
          current_board_version, boxes, diff_window, fp>>

-----------------------------------------------------------------------------
(* Python values *)

\* None; a record, so that it compares with every object of the model
None == [none |-> TRUE]

\* the empty str
EmptyStr == <<>>

\* Characters in ASCII order; Ord gives the comparison key of a character.
Ascii ==
    <<" ", "(", ")", ",", ".", "/",
      "0", "1", "2", "3", "4", "5", "6", "7", "8", "9", ";",
      "A", "B", "C", "D", "E", "F", "G", "H", "I", "J", "K", "L", "M",
      "N", "O", "P", "Q", "R", "S", "T", "U", "V", "W", "X", "Y", "Z", "_",
      "a", "b", "c", "d", "e", "f", "g", "h", "i", "j", "k", "l", "m",
      "n", "o", "p", "q", "r", "s", "t", "u", "v", "w", "x", "y", "z">>

Ord(ch) == CHOOSE i \in 1..Len(Ascii) : Ascii[i] = ch

Digits == {"0", "1", "2", "3", "4", "5", "6", "7", "8", "9"}

UpperLetters ==
    {"A", "B", "C", "D", "E", "F", "G", "H", "I", "J", "K", "L", "M",
     "N", "O", "P", "Q", "R", "S", "T", "U", "V", "W", "X", "Y", "Z"}

LowerLetters ==
    {"a", "b", "c", "d", "e", "f", "g", "h", "i", "j", "k", "l", "m",
     "n", "o", "p", "q", "r", "s", "t", "u", "v", "w", "x", "y", "z"}

\* the offset between a capital letter and its small letter in Ascii
CaseShift == Ord("a") - Ord("A")

LowerCh(ch) == IF ch \in UpperLetters THEN Ascii[Ord(ch) + CaseShift] ELSE ch

UpperCh(ch) == IF ch \in LowerLetters THEN Ascii[Ord(ch) - CaseShift] ELSE ch

\* str.lower(), str.upper()
Lower(s) == [i \in 1..Len(s) |-> LowerCh(s[i])]

Upper(s) == [i \in 1..Len(s) |-> UpperCh(s[i])]

\* str.strip(): leading and trailing blanks removed
RECURSIVE LStrip(_)
LStrip(s) == IF s # <<>> /\ Head(s) = " " THEN LStrip(Tail(s)) ELSE s

RECURSIVE RStrip(_)
RStrip(s) ==
    IF s # <<>> /\ s[Len(s)] = " " THEN RStrip(SubSeq(s, 1, Len(s) - 1)) ELSE s

Strip(s) == RStrip(LStrip(s))

\* str.startswith(p)
StartsWith(s, p) == Len(s) >= Len(p) /\ SubSeq(s, 1, Len(p)) = p

\* str.endswith(p)
EndsWith(s, p) ==
    Len(s) >= Len(p) /\ SubSeq(s, Len(s) - Len(p) + 1, Len(s)) = p

\* p in s (substring test)
Contains(s, p) ==
    \E i \in 0..(Len(s) - Len(p)) : SubSeq(s, i + 1, i + Len(p)) = p

\* "".join(ch for ch in s if keep(ch))
RECURSIVE FilterCh(_, _)
FilterCh(s, keep) ==
    IF s = <<>> THEN <<>>
    ELSE (IF Head(s) \in keep THEN <<Head(s)>> ELSE <<>>) \o FilterCh(Tail(s), keep)

\* s.replace(old, new) of one character
ReplaceCh(s, old, new) == [i \in 1..Len(s) |-> IF s[i] = old THEN new ELSE s[i]]

\* s.split(sep) on one character: every piece, empty pieces included
RECURSIVE SplitAcc(_, _, _)
SplitAcc(s, sep, cur) ==
    IF s = <<>> THEN <<cur>>
    ELSE IF Head(s) = sep THEN <<cur>> \o SplitAcc(Tail(s), sep, <<>>)
    ELSE SplitAcc(Tail(s), sep, Append(cur, Head(s)))

Split(s, sep) == SplitAcc(s, sep, <<>>)

\* s.replace(old, ""), every non-overlapping occurrence from the left
RECURSIVE RemoveAll(_, _)
RemoveAll(s, old) ==
    IF old = <<>> \/ Len(s) < Len(old) THEN s
    ELSE IF SubSeq(s, 1, Len(old)) = old
         THEN RemoveAll(SubSeq(s, Len(old) + 1, Len(s)), old)
         ELSE <<Head(s)>> \o RemoveAll(Tail(s), old)

\* Python's < on str
RECURSIVE StrLess(_, _)
StrLess(a, b) ==
    IF b = <<>> THEN FALSE
    ELSE IF a = <<>> THEN TRUE
    ELSE IF Head(a) = Head(b) THEN StrLess(Tail(a), Tail(b))
    ELSE Ord(Head(a)) < Ord(Head(b))

\* sorted(set): the elements of a finite set of str in ascending order
RECURSIVE Sorted(_)
Sorted(S) ==
    IF S = {} THEN <<>>
    ELSE LET m == CHOOSE x \in S : \A y \in S \ {x} : StrLess(x, y)
         IN  <<m>> \o Sorted(S \ {m})

\* the elements of a sequence
Range(q) == {q[i] : i \in 1..Len(q)}

-----------------------------------------------------------------------------
(* Python dict: insertion-ordered keys and the key -> value map *)

EmptyDict == [keys |-> <<>>, map |-> <<>>]

Has(d, k) == k \in Range(d.keys)

Get(d, k) == d.map[k]

\* d.setdefault(k, v): an old key keeps its value
Put_keep_first(d, k, v) ==
    IF Has(d, k) THEN d
    ELSE [keys |-> Append(d.keys, k),
          map  |-> [x \in Range(d.keys) \cup {k} |-> IF x = k THEN v ELSE d.map[x]]]

\* d[k] = v: a new key goes last, an old key keeps its place
Put(d, k, v) ==
    [keys |-> IF Has(d, k) THEN d.keys ELSE Append(d.keys, k),
     map  |-> [x \in Range(d.keys) \cup {k} |-> IF x = k THEN v ELSE d.map[x]]]

Keys(d) == Range(d.keys)

-----------------------------------------------------------------------------
(* str literals of the program *)

sNF == <<"n", "F">>
sPF == <<"p", "F">>
sUF == <<"u", "F">>
sNH == <<"n", "H">>
sUH == <<"u", "H">>
sOhms == <<"O", "h", "m", "s">>
sZero == <<"0">>

REF_KEYS == {<<"r","e","f","e","r","e","n","c","e"," ","d","e","s","i","g","n","a","t","o","r">>}
VALUE_KEYS == {<<"v","a","l","u","e">>}
TOL_KEYS == {<<"t","o","l","e","r","a","n","c","e">>}
SIZE_KEYS == {<<"s","i","z","e"," ","(","e","i","a",")">>}
RATE_KEYS == {<<"r","a","t","i","n","g">>}

\* the last row index the header search looks at: range(1, 60)
HeaderScanLast == 59

\* the worksheet column parse_production_bom reads the component type from
TypeColumn == 3

-----------------------------------------------------------------------------
(* Helpers shared by both revisions *)

\* values_match(v1, u1, v2, u2)
\* values_match without the two strip() calls
values_match_unstripped(v1, u1, v2, u2) == v1 = v2 /\ u1 = u2

values_match(v1, u1, v2, u2) == Strip(v1) = Strip(v2) /\ Strip(u1) = Strip(u2)

\* auto_default_unit(ref, unit): the default unit of the ref's first letter
auto_default_unit(ref, unit) ==
    IF unit # EmptyStr THEN unit
    ELSE LET r == Upper(ref)
         IN  IF StartsWith(r, <<"C">>) THEN sNF
             ELSE IF StartsWith(r, <<"R">>) THEN sOhms
             ELSE IF StartsWith(r, <<"L">>) THEN sNH
             ELSE EmptyStr

\* detect_type(ref)
detect_type(ref) ==
    LET r == Upper(ref)
    IN  IF StartsWith(r, <<"C">>) THEN "Capacitor"
        ELSE IF StartsWith(r, <<"R">>) THEN "Resistor"
        ELSE IF StartsWith(r, <<"L">>) THEN "Inductor"
        ELSE "Unknown"

-----------------------------------------------------------------------------
(* Worksheets (openpyxl).  A worksheet is a sequence of rows, a row a       *)
(* sequence of cells, a cell a str; the empty str stands for an empty cell  *)
(* (value None), which the code treats like "" everywhere it reads a cell,  *)
(* and a numeric cell is written as its decimal text.  A file is a record:  *)
(* [readable |-> FALSE] when opening it raises, else [readable |-> TRUE,    *)
(* rows |-> the worksheet or the CSV rows].                                 *)

Unreadable == [readable |-> FALSE]

Workbook(ws) == [readable |-> TRUE, rows |-> ws]

\* the length of the longest row, 0 for no rows
MaxLen(rows) ==
    LET lens == {Len(rows[i]) : i \in 1..Len(rows)} \cup {0}
    IN  CHOOSE m \in lens : \A n \in lens : m >= n

\* ws.max_row, ws.max_column
max_row(ws) == Len(ws)

max_column(ws) == MaxLen(ws)

\* ws.cell(r, c).value
cell(ws, r, c) ==
    IF r \in 1..Len(ws) /\ c \in 1..Len(ws[r]) THEN ws[r][c] ELSE EmptyStr

\* the columns of row r whose non-empty, stripped, lowered text contains a key
possible_cols(ws, r, keys) ==
    {c \in 1..max_column(ws) :
        /\ cell(ws, r, c) # EmptyStr
        /\ \E k \in keys : Contains(Lower(Strip(cell(ws, r, c))), k)}

MinOf(S) == CHOOSE x \in S : \A y \in S : x <= y

MaxOf(S) == CHOOSE x \in S : \A y \in S : x >= y

\* the header search: the first row of 1..59 holding a reference designator
\* column and a value column; 0 when there is none
is_header_row(ws, r) ==
    possible_cols(ws, r, REF_KEYS) # {} /\ possible_cols(ws, r, VALUE_KEYS) # {}

\* the header search with range(1, 61): one row too many
find_header_row_one_more(ws) ==
    LET hits == {r \in 1..(HeaderScanLast + 1) : is_header_row(ws, r)}
    IN  IF hits = {} THEN 0 ELSE MinOf(hits)

find_header_row(ws) ==
    LET hits == {r \in 1..HeaderScanLast : is_header_row(ws, r)}
    IN  IF hits = {} THEN 0 ELSE MinOf(hits)

\* headers = [ws.cell(header_row, c).value or "" for c in 1..max_column]
header_cells(ws, header_row) ==
    [c \in 1..max_column(ws) |-> cell(ws, header_row, c)]

\* split_refs without the replacement of "/"
split_refs_no_slash(ref_cell) ==
    Split(ReplaceCh(ReplaceCh(ref_cell, ";", ","), " ", ","), ",")

\* the split of a reference cell like "R4, R5": every piece, unstripped
split_refs(ref_cell) ==
    Split(ReplaceCh(ReplaceCh(ReplaceCh(ref_cell, ";", ","), "/", ","), " ", ","), ",")

-----------------------------------------------------------------------------
(* BOM.py: production BOM parser *)

\* extract_numeric(raw)
extract_numeric(raw) ==
    IF raw = EmptyStr THEN EmptyStr
    ELSE FilterCh(RemoveAll(Lower(raw), <<" ">>), Digits \cup {"."})

\* extract_unit(raw, explicit_unit); the two tests on the micro sign are
\* left out: the character is not in the model's alphabet
extract_unit(raw, explicit_unit) ==
    IF explicit_unit # EmptyStr THEN Strip(explicit_unit)
    ELSE IF raw = EmptyStr THEN EmptyStr
    ELSE LET s == Lower(raw)
         IN  IF Contains(s, <<"o","h","m">>) \/ EndsWith(s, <<"r">>) THEN sOhms
             ELSE IF Contains(s, <<"p","f">>) THEN sPF
             ELSE IF Contains(s, <<"n","f">>) THEN sNF
             ELSE IF Contains(s, <<"u","f">>) THEN sUF
             ELSE IF Contains(s, <<"n","h">>) THEN sNH
             ELSE IF Contains(s, <<"u","h">>) THEN sUH
             ELSE EmptyStr

\* put_refs giving each ref the default unit of its own prefix
RECURSIVE put_refs_own_unit(_, _, _)
put_refs_own_unit(bom, refs, entry) ==
    IF refs = <<>> THEN bom
    ELSE LET ref == Strip(Head(refs))
             own == [entry EXCEPT !.unit = auto_default_unit(ref, EmptyStr)]
         IN  put_refs_own_unit(IF ref = EmptyStr THEN bom ELSE Put(bom, ref, own),
                               Tail(refs), entry)

\* for ref in refs: bom[ref.strip()] = entry, empty refs skipped
RECURSIVE put_refs(_, _, _)
put_refs(bom, refs, entry) ==
    IF refs = <<>> THEN bom
    ELSE LET ref == Strip(Head(refs))
         IN  put_refs(IF ref = EmptyStr THEN bom ELSE Put(bom, ref, entry),
                      Tail(refs), entry)

\* parse_row with the zero-ohm exception taken from the ref prefix instead of
\* the Type column
parse_row_by_prefix(bom, ws, r, col_ref, col_val) ==
    LET ref_cell == cell(ws, r, col_ref)
        val_cell == cell(ws, r, col_val)
        refs == split_refs(ref_cell)
        raw_val_str == Strip(val_cell)
        numeric == extract_numeric(raw_val_str)
        inferred_unit == extract_unit(raw_val_str, EmptyStr)
        is_resistor_row == detect_type(refs[1]) = "Resistor"
        is_zero_ohm == is_resistor_row /\ numeric = sZero /\ inferred_unit = sOhms
        cleared == numeric = sZero /\ ~is_zero_ohm
        entry == [value |-> IF cleared THEN EmptyStr ELSE numeric,
                  unit  |-> IF cleared THEN EmptyStr
                            ELSE auto_default_unit(refs[1], inferred_unit)]
    IN  IF ref_cell = EmptyStr THEN bom ELSE put_refs(bom, refs, entry)

\* one data row of parse_production_bom (lines 592-640)
parse_row(bom, ws, r, col_ref, col_val) ==
    LET ref_cell == cell(ws, r, col_ref)
        val_cell == cell(ws, r, col_val)
        refs == split_refs(ref_cell)
        raw_val_str == Strip(val_cell)
        numeric == extract_numeric(raw_val_str)
        inferred_unit == extract_unit(raw_val_str, EmptyStr)
        type_str == Lower(Strip(cell(ws, r, TypeColumn)))
        is_resistor_row == Contains(type_str, <<"r","e","s">>)
        is_zero_ohm == is_resistor_row /\ numeric = sZero /\ inferred_unit = sOhms
        cleared == numeric = sZero /\ ~is_zero_ohm
        entry == [value |-> IF cleared THEN EmptyStr ELSE numeric,
                  unit  |-> IF cleared THEN EmptyStr
                            ELSE auto_default_unit(refs[1], inferred_unit)]
    IN  IF ref_cell = EmptyStr THEN bom ELSE put_refs(bom, refs, entry)

RECURSIVE parse_rows(_, _, _, _, _)
parse_rows(bom, ws, r, col_ref, col_val) ==
    IF r > max_row(ws) THEN bom
    ELSE parse_rows(parse_row(bom, ws, r, col_ref, col_val), ws, r + 1, col_ref, col_val)

\* parse_production_bom(filepath): [bom, headers], both None when the
\* workbook cannot be opened or no header row is found
parse_production_bom(file) ==
    IF ~file.readable THEN [bom |-> None, headers |-> None]
    ELSE LET ws == file.rows
             header_row == find_header_row(ws)
         IN  IF header_row = 0 THEN [bom |-> None, headers |-> None]
             ELSE [bom |-> parse_rows(EmptyDict, ws, header_row + 1,
                                      MinOf(possible_cols(ws, header_row, REF_KEYS)),
                                      MinOf(possible_cols(ws, header_row, VALUE_KEYS))),
                   headers |-> header_cells(ws, header_row)]

-----------------------------------------------------------------------------
(* BOM_V2.py: class ProductionBOM *)

\* the optional column of the header row: the last column matching, 0 if none
optional_col(ws, header_row, keys) ==
    LET cols == possible_cols(ws, header_row, keys)
    IN  IF cols = {} THEN 0 ELSE MaxOf(cols)

\* one data row of ProductionBOM.from_xlsx (lines 344-386)
from_xlsx_row(entries, ws, r, col_ref, col_val, col_tol, col_size, col_rate) ==
    LET ref_cell == cell(ws, r, col_ref)
        val_cell == cell(ws, r, col_val)
        refs == split_refs(ref_cell)
        raw_val == Strip(val_cell)
        digits == FilterCh(raw_val, Digits \cup {"."})
        entry == [value |-> IF digits = sZero THEN EmptyStr ELSE digits,
                  unit  |-> IF digits = sZero THEN EmptyStr
                            ELSE auto_default_unit(refs[1], EmptyStr),
                  tolerance |-> IF col_tol = 0 THEN EmptyStr ELSE Strip(cell(ws, r, col_tol)),
                  size_eia |-> IF col_size = 0 THEN EmptyStr ELSE Strip(cell(ws, r, col_size)),
                  rating |-> IF col_rate = 0 THEN EmptyStr ELSE Strip(cell(ws, r, col_rate))]
    IN  IF ref_cell = EmptyStr THEN entries ELSE put_refs(entries, refs, entry)

RECURSIVE from_xlsx_rows(_, _, _, _, _, _, _, _)
from_xlsx_rows(entries, ws, r, col_ref, col_val, col_tol, col_size, col_rate) ==
    IF r > max_row(ws) THEN entries
    ELSE from_xlsx_rows(
            from_xlsx_row(entries, ws, r, col_ref, col_val, col_tol, col_size, col_rate),
            ws, r + 1, col_ref, col_val, col_tol, col_size, col_rate)

\* ProductionBOM.from_xlsx(path, auto_unit_fn): the ProductionBOM object, or
\* None when load_workbook or the header search raises
from_xlsx(file) ==
    IF ~file.readable THEN None
    ELSE LET ws == file.rows
             header_row == find_header_row(ws)
         IN  IF header_row = 0 THEN None
             ELSE [entries |-> from_xlsx_rows(EmptyDict, ws, header_row + 1,
                                   MinOf(possible_cols(ws, header_row, REF_KEYS)),
                                   MinOf(possible_cols(ws, header_row, VALUE_KEYS)),
                                   optional_col(ws, header_row, TOL_KEYS),
                                   optional_col(ws, header_row, SIZE_KEYS),
                                   optional_col(ws, header_row, RATE_KEYS)),
                   headers |-> header_cells(ws, header_row)]

-----------------------------------------------------------------------------
(* Numbers in files *)

\* whether float(s) succeeds: the model's numbers are unsigned decimal integers
is_float(s) == Strip(s) # EmptyStr /\ Range(Strip(s)) \subseteq Digits

DigitVal(ch) == Ord(ch) - Ord("0")

RECURSIVE to_nat(_)
to_nat(s) == IF s = <<>> THEN 0 ELSE to_nat(SubSeq(s, 1, Len(s) - 1)) * 10 + DigitVal(s[Len(s)])

\* float(s), defined where is_float(s)
to_float(s) == to_nat(Strip(s))

-----------------------------------------------------------------------------
(* BOM.py: tuning BOM CSV.  A CSV row is [ref, value, unit]: the cells the  *)
(* DictReader row gives for ReferenceID/Reference/Ref, Value and Unit.      *)

\* parts = raw_val.split(); parts[-1] if parts else ""
last_token(raw_val) ==
    LET parts == SelectSeq(Split(raw_val, " "), LAMBDA t : t # EmptyStr)
    IN  IF parts = <<>> THEN EmptyStr ELSE parts[Len(parts)]

\* one row of load_tuning_bom_csv (lines 694-722)
tuning_row(tuning, row) ==
    LET ref == Strip(row.ref)
        raw_val == last_token(Strip(row.value))
        raw_unit == Strip(row.unit)
        numeric == extract_numeric(raw_val)
        unit == extract_unit(raw_val, raw_unit)
        entry == IF numeric = sZero
                 THEN [value |-> EmptyStr, unit |-> EmptyStr]
                 ELSE [value |-> numeric, unit |-> auto_default_unit(ref, unit)]
    IN  IF ref = EmptyStr THEN tuning ELSE Put(tuning, ref, entry)

RECURSIVE tuning_rows(_, _)
tuning_rows(tuning, rows) ==
    IF rows = <<>> THEN tuning ELSE tuning_rows(tuning_row(tuning, Head(rows)), Tail(rows))

-----------------------------------------------------------------------------
(* XY file (CSV).  A row is [ref, x, y, angle]: the cells the DictReader    *)
(* row gives for ReferenceID/Reference/Ref/Designator, X, Y and Angle.      *)

\* (row.get("Angle") or "0").strip()
angle_text(row) == IF row.angle = EmptyStr THEN sZero ELSE Strip(row.angle)

xy_row_ok(row) ==
    /\ Strip(row.ref) # EmptyStr
    /\ is_float(row.x) /\ is_float(row.y) /\ is_float(angle_text(row))

component(ref, x, y, angle) ==
    [ref |-> ref, x |-> x, y |-> y, angle |-> angle,
     value |-> EmptyStr, unit |-> EmptyStr,
     comp_type |-> detect_type(ref), nc |-> FALSE]

\* the loop of load_xy_file: [data, raw_data]
RECURSIVE xy_rows(_, _, _)
xy_rows(acc, rows, scale) ==
    IF rows = <<>> THEN acc
    ELSE LET row == Head(rows)
             ref == Strip(row.ref)
             x_raw == to_float(row.x)
             y_raw == to_float(row.y)
             angle == to_float(angle_text(row))
         IN  xy_rows(
               IF ~xy_row_ok(row) THEN acc
               ELSE [raw_data |-> Put(acc.raw_data, ref,
                                      [x |-> x_raw, y |-> y_raw, angle |-> angle]),
                     data |-> Put(acc.data, ref,
                                  component(ref, x_raw * scale, y_raw * scale, angle))],
               Tail(rows), scale)

-----------------------------------------------------------------------------
(* BOM_V2.py: class Board *)

\* Board(path)
Board(path) ==
    [path |-> path, xy |-> EmptyDict, versions |-> <<>>,
     version_names |-> <<>>, version_meta |-> <<>>]

\* Board._normalize_unit(raw_unit)
normalize_unit(raw_unit) ==
    LET key == Lower(Strip(raw_unit))
    IN  IF key = <<"p","f">> THEN sPF
        ELSE IF key = <<"n","f">> THEN sNF
        ELSE IF key = <<"u","f">> THEN sUF
        ELSE IF key \in {<<"o","h","m","s">>, <<"o","h","m">>, <<"r">>} THEN sOhms
        ELSE IF key = <<"n","h">> THEN sNH
        ELSE IF key = <<"u","h">> THEN sUH
        ELSE raw_unit

\* the longest prefix of s made of characters of keep
RECURSIVE PrefixOf(_, _)
PrefixOf(s, keep) ==
    IF s # <<>> /\ Head(s) \in keep THEN <<Head(s)>> \o PrefixOf(Tail(s), keep) ELSE <<>>

\* Board._split_value_unit(raw): [value, unit].  The regular expression
\* ^\s*([0-9]*\.?[0-9]+)\s*([a-zA-Z]*)\s*$ matches the stripped text when
\* its leading run of digits and dots has at most one dot and ends in a
\* digit, and only letters follow it after optional blanks.
split_value_unit(raw) ==
    LET s == Strip(raw)
        num == PrefixOf(s, Digits \cup {"."})
        rest == LStrip(SubSeq(s, Len(num) + 1, Len(s)))
        matched == /\ num # <<>>
                   /\ num[Len(num)] \in Digits
                   /\ Len(SelectSeq(num, LAMBDA ch : ch = ".")) <= 1
                   /\ Range(rest) \subseteq UpperLetters \cup LowerLetters
        value == FilterCh(s, Digits \cup {"."})
    IN  IF s = EmptyStr THEN [value |-> EmptyStr, unit |-> EmptyStr]
        ELSE IF matched THEN [value |-> num, unit |-> normalize_unit(rest)]
        ELSE [value |-> value, unit |-> normalize_unit(Strip(RemoveAll(s, value)))]

\* Board._join_value_unit(value, unit)
join_value_unit(value, unit) ==
    LET v == Strip(value)
        u == Strip(unit)
    IN  IF v = EmptyStr THEN EmptyStr ELSE v \o u

\* the loop of append_version_from_xy without the two strip() calls
RECURSIVE version_from_xy_unstripped(_, _, _)
version_from_xy_unstripped(bom, refs, xy) ==
    IF refs = <<>> THEN bom
    ELSE LET ref == Head(refs)
             info == Get(xy, ref)
         IN  version_from_xy_unstripped(
               IF info.nc \/ (info.value = EmptyStr /\ info.unit = EmptyStr) THEN bom
               ELSE Put(bom, ref, [value |-> info.value, unit |-> info.unit]),
               Tail(refs), xy)

\* the loop of Board.append_version_from_xy (lines 205-213)
RECURSIVE version_from_xy(_, _, _)
version_from_xy(bom, refs, xy) ==
    IF refs = <<>> THEN bom
    ELSE LET ref == Head(refs)
             info == Get(xy, ref)
             val == Strip(info.value)
             unit == Strip(info.unit)
         IN  version_from_xy(
               IF info.nc \/ (val = EmptyStr /\ unit = EmptyStr) THEN bom
               ELSE Put(bom, ref, [value |-> val, unit |-> unit]),
               Tail(refs), xy)

\* str(n) of a small index
DigitText(n) == <<Ascii[Ord("0") + n]>>

RECURSIVE IntText(_)
IntText(n) == IF n < 10 THEN DigitText(n) ELSE IntText(n \div 10) \o DigitText(n % 10)

\* f"V{i}"
version_name(i) == <<"V">> \o IntText(i)

\* [f"V{i}" for i in range(n)]
RECURSIVE default_names(_)
default_names(n) == IF n = 0 THEN <<>> ELSE Append(default_names(n - 1), version_name(n - 1))

\* append_version_from_xy with insert(0, bom) in place of append(bom)
append_version_in_front(board, xy, timestamp, notes) ==
    [board EXCEPT
        !.versions = <<version_from_xy(EmptyDict, xy.keys, xy)>> \o @,
        !.version_names = Append(@, version_name(Len(board.versions))),
        !.version_meta = Append(@, [timestamp |-> timestamp, notes |-> notes])]

\* Board.append_version_from_xy(xy_data, timestamp, notes): the board after it
append_version_from_xy(board, xy, timestamp, notes) ==
    [board EXCEPT
        !.versions = Append(@, version_from_xy(EmptyDict, xy.keys, xy)),
        !.version_names = Append(@, version_name(Len(board.versions))),
        !.version_meta = Append(@, [timestamp |-> timestamp, notes |-> notes])]

\* Board.save_to_xlsx(): the board after it (when the board has placements
\* and no version names, the names are set to V0..Vn-1 before writing)
save_to_xlsx(board) ==
    IF board.xy.keys = <<>> THEN board
    ELSE IF board.version_names = <<>> /\ board.versions # <<>>
    THEN [board EXCEPT !.version_names = default_names(Len(board.versions))]
    ELSE board

\* a header of the board sheet read as a version column: [base, suffix]
\* when it matches ^(v\d+)(?:_(timestamp|notes))?$ ignoring case, with the
\* base in capitals; [base |-> EmptyStr] when it does not match
sTimestamp == <<"_","t","i","m","e","s","t","a","m","p">>
sNotes == <<"_","n","o","t","e","s">>

is_version_text(n) ==
    Len(n) >= 2 /\ n[1] = "v" /\ Range(Tail(n)) \subseteq Digits

version_header(name) ==
    LET n == Lower(name)
        cut(suffix) == SubSeq(n, 1, Len(n) - Len(suffix))
    IN  IF is_version_text(n) THEN [base |-> Upper(n), suffix |-> "value"]
        ELSE IF EndsWith(n, sTimestamp) /\ is_version_text(cut(sTimestamp))
        THEN [base |-> Upper(cut(sTimestamp)), suffix |-> "timestamp"]
        ELSE IF EndsWith(n, sNotes) /\ is_version_text(cut(sNotes))
        THEN [base |-> Upper(cut(sNotes)), suffix |-> "notes"]
        ELSE [base |-> EmptyStr, suffix |-> "value"]

\* headers of row 1, stripped: headers[c] for c in 1..max_column
board_headers(ws) == [c \in 1..max_column(ws) |-> Strip(cell(ws, 1, c))]

\* header_map.get(name): the last column whose lowered header is name, 0 if none
header_col(ws, name) ==
    LET cols == {c \in 1..max_column(ws) : Lower(board_headers(ws)[c]) = name}
    IN  IF cols = {} THEN 0 ELSE MaxOf(cols)

\* header_map.get(a) or header_map.get(b) or ... or default
first_col(ws, names, default) ==
    LET found == SelectSeq(names, LAMBDA n : header_col(ws, n) # 0)
    IN  IF found = <<>> THEN default ELSE header_col(ws, found[1])

\* version_columns[base][suffix]: the last column with that base and suffix, 0 if none
version_col(ws, base, suffix) ==
    LET cols == {c \in 1..max_column(ws) :
                    /\ version_header(board_headers(ws)[c]).base = base
                    /\ version_header(board_headers(ws)[c]).suffix = suffix}
    IN  IF cols = {} THEN 0 ELSE MaxOf(cols)

\* ordered_versions: the headers matching ^v\d+$, in capitals, in column order
RECURSIVE ordered_versions(_, _)
ordered_versions(ws, c) ==
    IF c > max_column(ws) THEN <<>>
    ELSE LET h == version_header(board_headers(ws)[c])
         IN  (IF h.base # EmptyStr /\ h.suffix = "value" THEN <<h.base>> ELSE <<>>)
             \o ordered_versions(ws, c + 1)

\* one sheet row of Board.load_from_xlsx (lines 160-196); acc is
\* [board, meta_found]
load_row(acc, ws, row, ref_col, x_col, y_col, angle_col) ==
    LET board == acc.board
        ref == Strip(cell(ws, row, ref_col))
        angle_raw == cell(ws, row, angle_col)
        angle == IF is_float(angle_raw) THEN to_float(angle_raw) ELSE 0
        coords == [x |-> to_float(cell(ws, row, x_col)),
                   y |-> to_float(cell(ws, row, y_col)), angle |-> angle]
        value_col(idx) == version_col(ws, board.version_names[idx], "value")
        raw_val(idx) == cell(ws, row, value_col(idx))
        ts_col(idx) == version_col(ws, board.version_names[idx], "timestamp")
        notes_col(idx) == version_col(ws, board.version_names[idx], "notes")
        ts_val(idx) == IF ts_col(idx) = 0 THEN EmptyStr ELSE cell(ws, row, ts_col(idx))
        notes_val(idx) == IF notes_col(idx) = 0 THEN EmptyStr ELSE cell(ws, row, notes_col(idx))
        sets_meta(idx) == /\ idx \notin acc.meta_found
                          /\ (ts_val(idx) # EmptyStr \/ notes_val(idx) # EmptyStr)
    IN  IF cell(ws, row, ref_col) = EmptyStr THEN acc
        ELSE IF ~(is_float(cell(ws, row, x_col)) /\ is_float(cell(ws, row, y_col))) THEN acc
        ELSE [board |->
                [board EXCEPT
                    !.xy = Put(@, ref, coords),
                    !.versions = [idx \in DOMAIN @ |->
                        IF value_col(idx) # 0 /\ raw_val(idx) # EmptyStr
                        THEN Put(@[idx], ref, split_value_unit(raw_val(idx)))
                        ELSE @[idx]],
                    !.version_meta = [idx \in DOMAIN @ |->
                        IF sets_meta(idx)
                        THEN [timestamp |-> ts_val(idx), notes |-> notes_val(idx)]
                        ELSE @[idx]]],
              meta_found |-> acc.meta_found \cup {idx \in DOMAIN board.versions : sets_meta(idx)}]

RECURSIVE load_rows(_, _, _, _, _, _, _)
load_rows(acc, ws, row, ref_col, x_col, y_col, angle_col) ==
    IF row > max_row(ws) THEN acc
    ELSE load_rows(load_row(acc, ws, row, ref_col, x_col, y_col, angle_col),
                   ws, row + 1, ref_col, x_col, y_col, angle_col)

\* a list of n copies of x
RECURSIVE Repeat(_, _)
Repeat(x, n) == IF n = 0 THEN <<>> ELSE Append(Repeat(x, n - 1), x)

\* Board.load_from_xlsx(path): the board, or None when load_workbook raises
load_from_xlsx(path, file) ==
    IF ~file.readable THEN None
    ELSE LET ws == file.rows
             names == ordered_versions(ws, 1)
             start == [Board(path) EXCEPT
                         !.version_names = names,
                         !.versions = Repeat(EmptyDict, Len(names)),
                         !.version_meta = Repeat([timestamp |-> EmptyStr, notes |-> EmptyStr],
                                                 Len(names))]
         IN  load_rows([board |-> start, meta_found |-> {}], ws, 2,
                       first_col(ws, <<<<"r","e","f","e","r","e","n","c","e","i","d">>,
                                       <<"r","e","f","e","r","e","n","c","e"," ","i","d">>,
                                       <<"r","e","f">>>>, 1),
                       first_col(ws, <<<<"x">>>>, 2),
                       first_col(ws, <<<<"y">>>>, 3),
                       first_col(ws, <<<<"a","n","g","l","e">>>>, 4)).board

-----------------------------------------------------------------------------
\* row.get(name) of a csv.DictReader row: the cell of the last column with
\* that field name, "" when there is none
csv_get(fieldnames, row, name) ==
    LET cols == {c \in 1..Len(fieldnames) : fieldnames[c] = name /\ c <= Len(row)}
    IN  IF cols = {} THEN EmptyStr ELSE row[MaxOf(cols)]

\* version_cols = [c for c in reader.fieldnames if c and c.upper().startswith("V")]
version_cols(fieldnames) ==
    SelectSeq(fieldnames, LAMBDA c : c # EmptyStr /\ StartsWith(Upper(c), <<"V">>))

\* one row of Board.load_from_csv (lines 49-72)
load_from_csv_row(board, fieldnames, row) ==
    LET cols == version_cols(fieldnames)
        ref == Strip(IF csv_get(fieldnames, row, <<"R","e","f","e","r","e","n","c","e","I","D">>)
                        # EmptyStr
                     THEN csv_get(fieldnames, row, <<"R","e","f","e","r","e","n","c","e","I","D">>)
                     ELSE csv_get(fieldnames, row, <<"R","e","f">>))
        x_raw == csv_get(fieldnames, row, <<"X">>)
        y_raw == csv_get(fieldnames, row, <<"Y">>)
        angle_raw == IF csv_get(fieldnames, row, <<"A","n","g","l","e">>) = EmptyStr
                     THEN sZero ELSE csv_get(fieldnames, row, <<"A","n","g","l","e">>)
        padded == IF Len(board.versions) < Len(cols)
                  THEN board.versions \o Repeat(EmptyDict, Len(cols) - Len(board.versions))
                  ELSE board.versions
        raw(idx) == Strip(csv_get(fieldnames, row, cols[idx]))
    IN  IF ref = EmptyStr THEN board
        ELSE IF ~(is_float(x_raw) /\ is_float(y_raw) /\ is_float(angle_raw)) THEN board
        ELSE [board EXCEPT
                !.xy = Put(@, ref, [x |-> to_float(x_raw), y |-> to_float(y_raw),
                                    angle |-> to_float(angle_raw)]),
                !.versions = [idx \in 1..Len(padded) |->
                    IF idx <= Len(cols) /\ raw(idx) # EmptyStr
                    THEN Put(padded[idx], ref, [value |-> raw(idx), unit |-> EmptyStr])
                    ELSE padded[idx]]]

RECURSIVE load_from_csv_rows(_, _, _)
load_from_csv_rows(board, fieldnames, rows) ==
    IF rows = <<>> THEN board
    ELSE load_from_csv_rows(load_from_csv_row(board, fieldnames, Head(rows)),
                            fieldnames, Tail(rows))

\* Board.load_from_csv(path), for a file that can be opened
load_from_csv(path, file) ==
    IF file.fieldnames = <<>> THEN Board(path)
    ELSE load_from_csv_rows(
            [Board(path) EXCEPT !.version_names = version_cols(file.fieldnames)],
            file.fieldnames, file.rows)

-----------------------------------------------------------------------------

(* redraw: the unit default and the highlight of every component *)

\* highlight = None
NoHighlight == "None"

\* redraw without "if nc_flag: val = ''; unit = ''"
shown_stored(info) == [value |-> info.value, unit |-> info.unit]

\* the value and unit redraw shows: empty for an N/C component
shown(info) ==
    [value |-> IF info.nc THEN EmptyStr ELSE info.value,
     unit  |-> IF info.nc THEN EmptyStr ELSE info.unit]

\* "if val and not unit": redraw stores the default unit
fills_unit(info) == shown(info).value # EmptyStr /\ shown(info).unit = EmptyStr

\* the unit as it was saved: no default is filled in
drawn_unit_as_saved(ref, info) == shown(info).unit

\* the unit after "unit = self.auto_default_unit(ref, unit)"
drawn_unit(ref, info) ==
    IF fills_unit(info) THEN auto_default_unit(ref, shown(info).unit) ELSE shown(info).unit

\* LayoutApp.redraw (BOM.py lines 979-993): the highlight
highlight_BOM(ref, val, unit, nc_flag, prod) ==
    LET is_zero_ohm == Strip(val) = sZero /\ Strip(unit) = sOhms
    IN  IF val = EmptyStr /\ ~is_zero_ohm THEN "missing"
        ELSE IF /\ prod # None
                /\ prod # EmptyDict
                /\ Has(prod, ref)
                /\ ~nc_flag
                /\ (Get(prod, ref).value # EmptyStr \/ Get(prod, ref).unit # EmptyStr)
                /\ ~values_match(val, unit, Get(prod, ref).value, Get(prod, ref).unit)
        THEN "mismatch"
        ELSE NoHighlight

\* LayoutAppV2.redraw (BOM_V2.py lines 1052-1063): the highlight
highlight_V2(ref, val, unit, nc_flag, prod) ==
    IF val = EmptyStr THEN "missing"
    ELSE IF /\ prod # None
            /\ ~nc_flag
            /\ Has(prod.entries, ref)
            /\ (Get(prod.entries, ref).value # EmptyStr \/ Get(prod.entries, ref).unit # EmptyStr)
            /\ ~values_match(val, unit, Get(prod.entries, ref).value, Get(prod.entries, ref).unit)
    THEN "mismatch"
    ELSE NoHighlight

highlight(r, ref, val, unit, nc_flag, prod) ==
    IF r = "BOM" THEN highlight_BOM(ref, val, unit, nc_flag, prod)
    ELSE highlight_V2(ref, val, unit, nc_flag, prod)

\* the ComponentBox redraw creates for one component
box_of(r, ref, info, prod) ==
    [value |-> shown(info).value,
     unit |-> drawn_unit(ref, info),
     angle |-> info.angle,
     nc |-> info.nc,
     highlight |-> highlight(r, ref, shown(info).value, drawn_unit(ref, info), info.nc, prod)]

NoBoxes == [ref \in {} |-> None]

\* a redraw that stores the default unit of the ref for every component
\* that shows a value, whatever unit it had
redraw_defaulting(r, xy, prod) ==
    IF xy.keys = <<>> THEN [xy_data |-> xy, boxes |-> NoBoxes]
    ELSE [xy_data |-> [xy EXCEPT !.map = [ref \in Keys(xy) |->
                          IF shown(xy.map[ref]).value # EmptyStr
                          THEN [xy.map[ref] EXCEPT !.unit = auto_default_unit(ref, EmptyStr)]
                          ELSE xy.map[ref]]],
          boxes |-> [ref \in Keys(xy) |-> box_of(r, ref, xy.map[ref], prod)]]

\* redraw(): [xy_data, boxes] after it; nothing is drawn when xy_data is empty
redraw(r, xy, prod) ==
    IF xy.keys = <<>> THEN [xy_data |-> xy, boxes |-> NoBoxes]
    ELSE [xy_data |-> [xy EXCEPT !.map = [ref \in Keys(xy) |->
                          IF fills_unit(xy.map[ref])
                          THEN [xy.map[ref] EXCEPT !.unit = drawn_unit(ref, xy.map[ref])]
                          ELSE xy.map[ref]]],
          boxes |-> [ref \in Keys(xy) |-> box_of(r, ref, xy.map[ref], prod)]]

-----------------------------------------------------------------------------
(* The inputs of the model *)

rR1 == <<"R", "1">>
rC1 == <<"C", "1">>
rR2 == <<"R", "2">>
rU1 == <<"U", "1">>

\* XY files
XyFileR == Workbook(<<
    [ref |-> rR1, x |-> <<"1">>, y |-> <<"2">>, angle |-> <<"9", "0">>]>>)

XyFileC == Workbook(<<
    [ref |-> <<" ">>, x |-> <<"1">>, y |-> <<"1">>, angle |-> <<"0">>],
    [ref |-> rU1, x |-> <<"x">>, y |-> <<"1">>, angle |-> <<"0">>],
    [ref |-> <<"C", "1", " ">>, x |-> <<"3">>, y |-> <<"1">>, angle |-> <<"9", "0">>]>>)

XyFileRC == Workbook(<<
    [ref |-> rR1, x |-> <<"1">>, y |-> <<"2">>, angle |-> EmptyStr],
    [ref |-> rC1, x |-> <<"3">>, y |-> <<"1">>, angle |-> <<"9", "0">>]>>)

XyFiles(r) ==
    IF r = "BOM" THEN {Unreadable, XyFileR, XyFileRC} ELSE {Unreadable, XyFileR, XyFileC}

\* production BOM workbooks
hRef == <<"R","e","f","e","r","e","n","c","e"," ","D","e","s","i","g","n","a","t","o","r">>
hValue == <<"V","a","l","u","e">>
hType == <<"T","y","p","e">>
hTol == <<"T","o","l","e","r","a","n","c","e">>
tRes == <<"R","e","s">>
tCap == <<"C","a","p">>

SheetNoHeader == Workbook(<<
    <<<<"R","e","f">>, hValue>>,
    <<rR1, <<"1","0">>>>>>)

SheetA == Workbook(<<
    <<<<"B","O","M">>>>,
    <<hRef, hValue, hType>>,
    <<rR1, <<"4",".","7","k">>, tRes>>,
    <<EmptyStr, <<"5">>, EmptyStr>>,
    <<rC1, <<"1","0","p","F">>, tCap>>>>)

SheetB == Workbook(<<
    <<hRef, hValue, hType, hTol>>,
    <<rR1, <<"4","7","0","0">>, tRes, <<"1">>>>,
    <<rC1, <<"0">>, tCap, <<"5">>>>>>)

ProductionFiles == {Unreadable, SheetNoHeader, SheetA, SheetB}

\* One-row production BOM workbooks: the header row "Reference Designator",
\* "Value", "Type" and one data row made of a reference cell, a value cell
\* and a Type cell
RefCells ==
    {<<"R", "1">>,
     <<"c", "1">>,
     <<"L", "1">>,
     <<"U", "1">>,
     <<" ", "R", "1">>,
     <<"R", "4", ",", " ", "R", "5", "/", "R", "6", " ", "R", "7">>,
     <<"C", "2", ";", ";", "R", "3">>}

ValueCells ==
    {<<"0">>,
     <<"0", "R">>,
     <<"0", " ", "O", "h", "m">>,
     <<"4", ".", "7", "k">>,
     <<"1", "0", "p", "F">>,
     <<"2", ".", "2", "U", "H">>,
     <<"1", "0">>,
     EmptyStr,
     <<"n", "F">>,
     <<"0", "4", "0", "2", " ", "1", "0", "n", "F">>,
     <<"1", "u", "F">>,
     <<"1", "0", "0", "n", "H">>}

TypeCells == {tRes, tCap, EmptyStr}

RowSheet(ref_cell, val_cell, type_cell) ==
    Workbook(<<<<hRef, hValue, hType>>, <<ref_cell, val_cell, type_cell>>>>)

RowSheets ==
    {RowSheet(ref_cell, val_cell, type_cell) :
        ref_cell \in RefCells, val_cell \in ValueCells, type_cell \in TypeCells}

\* The same workbook with its header row moved down to row n
HeaderSheet(n) ==
    Workbook([r \in 1..(n - 1) |-> <<>>] \o
             <<<<hType, hRef, hValue>>,
               <<tRes, rR1, <<"4", ".", "7">>>>,
               <<tCap, rC1, <<"1", "0", "p", "F">>>>>>)

HeaderRows == {1, 15, 25, 59, 60}

HeaderSheets == {HeaderSheet(n) : n \in HeaderRows}

\* A workbook whose second data row has an empty reference cell
BlankRowSheet ==
    Workbook(<<<<hRef, hValue, hType>>,
               <<rR1, <<"1", "0">>, tRes>>,
               <<EmptyStr, <<"5">>, EmptyStr>>,
               <<rC1, <<"1", "u", "F">>, tCap>>>>)

\* Workbooks in which R1 occurs in the first and in the last data row
RepeatValues == {<<"1", "0">>, <<"2", "2">>, <<"0", "R">>}

RepeatSheet(first_val, last_val) ==
    Workbook(<<<<hRef, hValue, hType>>,
               <<rR1, first_val, tRes>>,
               <<rC1, <<"1", "u", "F">>, tCap>>,
               <<<<"R", "2", ",", " ", "R", "1">>, last_val, tRes>>>>)

RepeatSheets ==
    {RepeatSheet(first_val, last_val) : first_val \in RepeatValues, last_val \in RepeatValues}

\* Tuning BOM CSV files in which R1 occurs in the first and in the third row;
\* the file dialogs offer *.csv for a tuning BOM and *.xlsx for a production BOM
TuningRepeat(first_val, last_val) ==
    [readable |-> TRUE, csv |-> TRUE,
     rows |-> <<[ref |-> rR1, value |-> first_val, unit |-> EmptyStr],
                [ref |-> rC1, value |-> <<"1", "u", "F">>, unit |-> EmptyStr],
                [ref |-> <<"R", "1", " ">>, value |-> last_val, unit |-> EmptyStr],
                [ref |-> rR2, value |-> last_val, unit |-> EmptyStr]>>]

\* the tuning BOM files the ingestion runs choose from
IngestTuning ==
    {TuningRepeat(first_val, last_val) : first_val \in RepeatValues, last_val \in RepeatValues}

\* the workbooks the ingestion runs choose from
IngestFiles ==
    {Unreadable} \cup RowSheets \cup HeaderSheets \cup {BlankRowSheet} \cup RepeatSheets

\* what the user types into the editor popup: value and unit
EditInputs ==
    {[value |-> EmptyStr, unit |-> sNF],
     [value |-> <<" ","4","7","0","0">>, unit |-> sOhms],
     [value |-> <<"4",".","7">>, unit |-> EmptyStr],
     [value |-> sZero, unit |-> sOhms]}

\* what the user types into the Angle field
AngleInputs == {<<"9", "0">>, <<"x">>}

\* the Scale menu: (box_scale in hundredths, xy_scale)
ScalePresets == {<<75, 80>>, <<100, 100>>, <<150, 140>>, <<200, 180>>}

\* the presets the model chooses
ScaleInputs == {<<200, 180>>}

\* tuning BOM CSV files
TuningFileA == Workbook(<<
    [ref |-> rR1, value |-> <<"0","4","0","2"," ","1","0","k">>, unit |-> EmptyStr],
    [ref |-> EmptyStr, value |-> <<"1">>, unit |-> EmptyStr],
    [ref |-> rC1, value |-> <<"2",".","5">>, unit |-> <<"p","F"," ">>]>>)

TuningFiles == {Unreadable, TuningFileA}

\* the most tuning BOMs the model loads
MaxTuning == 2

\* the most versions the model appends to one board
MaxVersions == 2

\* board workbooks: one as save_to_xlsx writes it, one edited by hand
hReferenceID == <<"R","e","f","e","r","e","n","c","e","I","D">>

BoardFileA ==
    [path |-> <<"a">>, readable |-> TRUE, rows |-> <<
        <<hReferenceID, <<"X">>, <<"Y">>, <<"A","n","g","l","e">>,
          <<"V","0">>, <<"V","0","_","T","i","m","e","s","t","a","m","p">>,
          <<"V","0","_","N","o","t","e","s">>>>,
        <<rR1, <<"1">>, <<"2">>, <<"9","0">>, <<"4",".","7","O","h","m","s">>, <<"t","0">>, EmptyStr>>,
        <<rC1, <<"x">>, <<"1">>, <<"9","0">>, <<"1","0","n","F">>, <<"t","0">>, EmptyStr>>>>]

BoardFileB ==
    [path |-> <<"b">>, readable |-> TRUE, rows |-> <<
        <<<<"R","e","f">>, <<"X">>, <<"Y">>, <<"A","n","g","l","e">>, <<"v","1">>>>,
        <<rC1, <<"3">>, <<"1">>, <<"9","0">>, <<"1","0"," ","n","f">>>>>>]

BoardFileBad == [path |-> <<"c">>, readable |-> FALSE]

BoardFiles == {BoardFileA, BoardFileB, BoardFileBad}

\* the path chosen in the Create Board dialog
NewBoardPath == <<"n">>

\* datetime.now() as text, and the notes typed into the Version Notes dialog
Timestamps == {<<"t","1">>}

NotesInputs == {EmptyStr}

\* the scale factors the Scale menu can set, and the initial one
ScaleFactors == {preset[2] : preset \in ScalePresets} \cup {100}

\* What each handler reads from each input file, computed once per file:
\* parse_production_bom(fp), ProductionBOM.from_xlsx(fp, ...),
\* Board.load_from_xlsx(fp), and the row loops of load_tuning_bom_csv and
\* load_xy_file
ParsedBOM == [file \in ProductionFiles |-> parse_production_bom(file)]

IngestedBOM == [file \in IngestFiles \ ProductionFiles |-> parse_production_bom(file)]

parsed_BOM(file) ==
    IF file \in ProductionFiles THEN ParsedBOM[file]
    ELSE IF file \in IngestFiles THEN IngestedBOM[file]
    ELSE parse_production_bom(file)

ParsedV2 == [file \in ProductionFiles |-> from_xlsx(file)]

IngestedV2 == [file \in IngestFiles \ ProductionFiles |-> from_xlsx(file)]

parsed_V2(file) ==
    IF file \in ProductionFiles THEN ParsedV2[file]
    ELSE IF file \in IngestFiles THEN IngestedV2[file]
    ELSE from_xlsx(file)

\* the header row Board.save_to_xlsx writes (lines 259-267)
RECURSIVE version_headers(_)
version_headers(names) ==
    IF names = <<>> THEN <<>>
    ELSE <<Head(names),
           Head(names) \o <<"_","T","i","m","e","s","t","a","m","p">>,
           Head(names) \o <<"_","N","o","t","e","s">>>> \o version_headers(Tail(names))

\* the three cells of one version in the row of ref (lines 277-283)
version_cells(board, ref, idx) ==
    LET version == IF idx <= Len(board.versions) THEN board.versions[idx] ELSE EmptyDict
        meta == IF idx <= Len(board.version_meta) THEN board.version_meta[idx]
                ELSE [timestamp |-> EmptyStr, notes |-> EmptyStr]
    IN  <<IF Has(version, ref)
          THEN join_value_unit(Get(version, ref).value, Get(version, ref).unit)
          ELSE EmptyStr,
          meta.timestamp, meta.notes>>

RECURSIVE versions_cells(_, _, _)
versions_cells(board, ref, idx) ==
    IF idx > Len(board.version_names) THEN <<>>
    ELSE version_cells(board, ref, idx) \o versions_cells(board, ref, idx + 1)

\* the sheet row of ref (lines 270-284); a number is written as its decimal text
board_row(board, ref) ==
    <<ref, IntText(Get(board.xy, ref).x), IntText(Get(board.xy, ref).y),
      IntText(Get(board.xy, ref).angle)>> \o versions_cells(board, ref, 1)

\* the worksheet Board.save_to_xlsx writes for a board with placements
\* (lines 256-286), the version names defaulted as save_to_xlsx does
saved_xlsx(board) ==
    LET named == save_to_xlsx(board)
        refs == Sorted(Keys(named.xy))
    IN  <<<<hReferenceID, <<"X">>, <<"Y">>, <<"A","n","g","l","e">>>>
          \o version_headers(named.version_names)>>
        \o [i \in 1..Len(refs) |-> board_row(named, refs[i])]

LoadedBoard == [file \in BoardFiles |-> load_from_xlsx(file.path, file)]

ParsedTuning ==
    [file \in TuningFiles \ {Unreadable} |-> tuning_rows(EmptyDict, file.rows)]

IngestedTuning == [file \in IngestTuning |-> tuning_rows(EmptyDict, file.rows)]

parsed_tuning(file) ==
    IF file \in TuningFiles THEN ParsedTuning[file] ELSE IngestedTuning[file]

AllXyFiles == XyFiles("BOM") \cup XyFiles("BOM_V2")

ParsedXy ==
    [file \in AllXyFiles \ {Unreadable} |->
        [scale \in ScaleFactors |->
            xy_rows([raw_data |-> EmptyDict, data |-> EmptyDict], file.rows, scale)]]

-----------------------------------------------------------------------------
(* Initial state: LayoutApp.__init__ / LayoutAppV2.__init__ *)

Start ==
    /\ xy_data = EmptyDict
    /\ raw_xy_data = EmptyDict
    /\ production_bom = None
    /\ production_bom_headers = None
    /\ tuning_boms = <<>>
    /\ tuning_var = -1
    /\ scale_factor = 100
    /\ box_scale = 150
    /\ current_board = None
    /\ current_board_version = None
    /\ boxes = NoBoxes
    /\ diff_window = None

Init == rev \in {"BOM", "BOM_V2"} /\ fp = None /\ Start

InitBOM == rev = "BOM" /\ fp = None /\ Start

InitV2 == rev = "BOM_V2" /\ fp = None /\ Start

\* an ingestion run: either revision, freshly started, and one workbook
InitIngest ==
    rev \in {"BOM", "BOM_V2"} /\ fp \in IngestFiles \cup IngestTuning /\ Start

appBOM == <<production_bom_headers, tuning_boms, tuning_var>>

appV2 == <<current_board, current_board_version>>

scales == <<scale_factor, box_scale>>

\* a handler that reports an error and returns: nothing changes
Fails == UNCHANGED vars

\* the handler ends in self.redraw()
Redraws(xy, prod) ==
    LET drawn == redraw(rev, xy, prod)
    IN  /\ xy_data' = drawn.xy_data
        /\ boxes' = drawn.boxes

-----------------------------------------------------------------------------
(* Handlers of both revisions.  A diff window left open is closed before   *)
(* the next operation.                                                      *)

\* load_xy_file storing its empty dicts before the file is read
load_xy_file_clearing(file) ==
    IF ~file.readable
    THEN /\ raw_xy_data' = EmptyDict
         /\ xy_data' = EmptyDict
         /\ UNCHANGED <<rev, fp, production_bom, appBOM, appV2, scales, boxes, diff_window>>
    ELSE LET acc == ParsedXy[file][scale_factor]
         IN  /\ raw_xy_data' = acc.raw_data
             /\ Redraws(acc.data, production_bom)
             /\ diff_window' = None
             /\ UNCHANGED <<rev, fp, production_bom, appBOM, appV2, scales>>

\* load_xy_file (BOM.py 391-446, BOM_V2.py 699-748)
load_xy_file(file) ==
    IF ~file.readable THEN Fails
    ELSE LET acc == ParsedXy[file][scale_factor]
         IN  /\ raw_xy_data' = acc.raw_data
             /\ Redraws(acc.data, production_bom)
             /\ diff_window' = None
             /\ UNCHANGED <<rev, fp, production_bom, appBOM, appV2, scales>>

\* the loop of set_scale over raw_xy_data
RECURSIVE rescale(_, _, _, _)
rescale(xy, refs, raw, scale) ==
    IF refs = <<>> THEN xy
    ELSE LET ref == Head(refs)
             info == IF Has(xy, ref) THEN Get(xy, ref)
                     ELSE component(ref, 0, 0, Get(raw, ref).angle)
         IN  rescale(Put(xy, ref, [info EXCEPT !.x = Get(raw, ref).x * scale,
                                               !.y = Get(raw, ref).y * scale]),
                     Tail(refs), raw, scale)

\* set_scale(box_scale, xy_scale)
set_scale(preset) ==
    /\ box_scale' = preset[1]
    /\ scale_factor' = preset[2]
    /\ Redraws(rescale(xy_data, raw_xy_data.keys, raw_xy_data, preset[2]), production_bom)
    /\ diff_window' = None
    /\ UNCHANGED <<rev, fp, raw_xy_data, production_bom, appBOM, appV2>>

\* ComponentBox.right_click.save_common: the xy_data after the assignments
save_common(xy, ref, new_value, new_unit, new_angle, nc_flag) ==
    IF Has(xy, ref)
    THEN [xy EXCEPT !.map[ref] = [@ EXCEPT !.value = new_value, !.unit = new_unit,
                                           !.angle = new_angle, !.nc = nc_flag]]
    ELSE xy

\* the popup's Save button
save(ref, input, angle) ==
    IF ~is_float(angle) THEN Fails
    ELSE /\ Redraws(save_common(xy_data, ref, input.value, input.unit,
                                to_float(angle), FALSE), production_bom)
         /\ diff_window' = None
         /\ UNCHANGED <<rev, fp, raw_xy_data, production_bom, appBOM, appV2, scales>>

\* the popup's N/C button
set_nc(ref, angle) ==
    /\ Redraws(save_common(xy_data, ref, EmptyStr, EmptyStr,
                           IF is_float(angle) THEN to_float(angle) ELSE boxes[ref].angle,
                           TRUE), production_bom)
    /\ diff_window' = None
    /\ UNCHANGED <<rev, fp, raw_xy_data, production_bom, appBOM, appV2, scales>>

-----------------------------------------------------------------------------
(* Handlers of LayoutApp (BOM.py) *)

\* load_production_bom without "and not info.get('nc', False)"
apply_production_bom_to_all(xy, bom) ==
    [xy EXCEPT !.map = [ref \in Keys(xy) |->
        IF Has(bom, ref)
        THEN [xy.map[ref] EXCEPT !.value = Get(bom, ref).value, !.unit = Get(bom, ref).unit]
        ELSE xy.map[ref]]]

\* load_production_bom copying the value but not the unit
apply_production_bom_value_only(xy, bom) ==
    [xy EXCEPT !.map = [ref \in Keys(xy) |->
        IF Has(bom, ref) /\ ~xy.map[ref].nc
        THEN [xy.map[ref] EXCEPT !.value = Get(bom, ref).value]
        ELSE xy.map[ref]]]

\* load_production_bom, lines 463-469: BOM values go to the components
\* that are not N/C
apply_production_bom(xy, bom) ==
    [xy EXCEPT !.map = [ref \in Keys(xy) |->
        IF Has(bom, ref) /\ ~xy.map[ref].nc
        THEN [xy.map[ref] EXCEPT !.value = Get(bom, ref).value, !.unit = Get(bom, ref).unit]
        ELSE xy.map[ref]]]

\* load_production_bom (BOM.py 451-473)
load_production_bom_BOM(file) ==
    /\ rev = "BOM"
    /\ LET parsed == parsed_BOM(file)
       IN  IF parsed.bom = None THEN Fails
           ELSE /\ production_bom' = parsed.bom
                /\ production_bom_headers' = parsed.headers
                /\ Redraws(apply_production_bom(xy_data, parsed.bom), parsed.bom)
                /\ UNCHANGED <<rev, fp, raw_xy_data, tuning_boms, tuning_var, appV2, scales,
                               diff_window>>

clear_xy ==
    /\ rev = "BOM"
    /\ raw_xy_data' = EmptyDict
    /\ Redraws(EmptyDict, production_bom)
    /\ UNCHANGED <<rev, fp, production_bom, appBOM, appV2, scales, diff_window>>

clear_tuning_boms ==
    /\ rev = "BOM"
    /\ tuning_boms' = <<>>
    /\ tuning_var' = -1
    /\ UNCHANGED <<rev, fp, xy_data, raw_xy_data, production_bom, production_bom_headers,
                   appV2, scales, boxes, diff_window>>

clear_production_bom ==
    /\ rev = "BOM"
    /\ production_bom' = None
    /\ production_bom_headers' = None
    /\ Redraws(xy_data, None)
    /\ UNCHANGED <<rev, fp, raw_xy_data, tuning_boms, tuning_var, appV2, scales, diff_window>>

\* load_tuning_bom_csv (BOM.py 684-744)
load_tuning_bom_csv(file) ==
    /\ rev = "BOM"
    /\ Len(tuning_boms) < MaxTuning
    /\ IF ~file.readable THEN Fails
       ELSE /\ tuning_boms' = Append(tuning_boms, parsed_tuning(file))
            /\ tuning_var' = IF tuning_var = -1 THEN 0 ELSE tuning_var
            /\ UNCHANGED <<rev, fp, xy_data, raw_xy_data, production_bom, production_bom_headers,
                           appV2, scales, boxes, diff_window>>

\* a click on the radio button "Tuning idx+1" (BOM.py 732-740)
select_tuning(idx) ==
    /\ rev = "BOM"
    /\ tuning_var' = idx
    /\ UNCHANGED <<rev, fp, xy_data, raw_xy_data, production_bom, production_bom_headers,
                   tuning_boms, appV2, scales, boxes, diff_window>>

\* apply_selected_tuning_bom_sidebar, lines 791-798
apply_tuning_bom(xy, bom) ==
    [xy EXCEPT !.map = [ref \in Keys(xy) |->
        IF ~xy.map[ref].nc /\ Has(bom, ref)
        THEN [xy.map[ref] EXCEPT !.value = Get(bom, ref).value, !.unit = Get(bom, ref).unit]
        ELSE xy.map[ref]]]

\* apply_selected_tuning_bom_sidebar (BOM.py 785-799)
apply_selected_tuning_bom_sidebar ==
    /\ rev = "BOM"
    /\ IF tuning_var < 0 \/ tuning_var >= Len(tuning_boms) THEN Fails
       ELSE /\ Redraws(apply_tuning_bom(xy_data, tuning_boms[tuning_var + 1]), production_bom)
            /\ UNCHANGED <<rev, fp, raw_xy_data, production_bom, appBOM, appV2, scales,
                           diff_window>>

-----------------------------------------------------------------------------
(* Handlers of LayoutAppV2 (BOM_V2.py) *)

\* load_production_bom, lines 762-766: BOM values go to every component
\* the BOM has an entry for
apply_production_bom_V2(xy, entries) ==
    [xy EXCEPT !.map = [ref \in Keys(xy) |->
        IF Has(entries, ref)
        THEN [xy.map[ref] EXCEPT !.value = Get(entries, ref).value,
                                 !.unit = Get(entries, ref).unit]
        ELSE xy.map[ref]]]

\* load_production_bom (BOM_V2.py 752-770)
load_production_bom_V2(file) ==
    /\ rev = "BOM_V2"
    /\ LET bom == parsed_V2(file)
       IN  IF bom = None THEN Fails
           ELSE /\ production_bom' = bom
                /\ Redraws(apply_production_bom_V2(xy_data, bom.entries), bom)
                /\ diff_window' = None
                /\ UNCHANGED <<rev, fp, raw_xy_data, appBOM, appV2, scales>>

\* _get_raw_coords_for_board: the raw coordinates, or the scaled ones
\* divided by the scale factor when there are no raw ones
get_raw_coords_for_board(raw, xy, scale) ==
    IF raw.keys # <<>> THEN raw
    ELSE [keys |-> xy.keys,
          map |-> [ref \in Keys(xy) |->
                     [x |-> xy.map[ref].x \div scale, y |-> xy.map[ref].y \div scale,
                      angle |-> xy.map[ref].angle]]]

\* the board create_board builds (lines 844-849)
new_board(path, raw, xy, scale) ==
    [Board(path) EXCEPT !.xy = get_raw_coords_for_board(raw, xy, scale)]

\* create_board (BOM_V2.py 826-860); io_ok: whether save_to_xlsx succeeds
create_board(io_ok) ==
    /\ rev = "BOM_V2"
    /\ IF xy_data.keys = <<>> \/ ~io_ok THEN Fails
       ELSE /\ current_board' =
                  save_to_xlsx(new_board(NewBoardPath, raw_xy_data, xy_data, scale_factor))
            /\ current_board_version' = None
            /\ diff_window' = None
            /\ UNCHANGED <<rev, fp, xy_data, raw_xy_data, production_bom, appBOM, scales, boxes>>

\* load_board_xlsx, lines 875-892: xy_data rebuilt from the board's placements
RECURSIVE board_components(_, _, _, _)
board_components(xy, refs, board_xy, scale) ==
    IF refs = <<>> THEN xy
    ELSE LET ref == Head(refs)
             coords == Get(board_xy, ref)
         IN  board_components(
               Put(xy, ref, component(ref, coords.x * scale, coords.y * scale, coords.angle)),
               Tail(refs), board_xy, scale)

\* load_board_xlsx, lines 894-899: the values of the selected version
apply_version(xy, ver) ==
    [xy EXCEPT !.map = [ref \in Keys(xy) |->
        IF Has(ver, ref)
        THEN [xy.map[ref] EXCEPT !.value = Get(ver, ref).value, !.unit = Get(ver, ref).unit]
        ELSE xy.map[ref]]]

\* load_board_xlsx (BOM_V2.py 862-905)
load_board_xlsx(file) ==
    /\ rev = "BOM_V2"
    /\ LET board == LoadedBoard[file]
       IN  IF board = None THEN Fails
           ELSE LET fresh == board_components(EmptyDict, board.xy.keys, board.xy,
                                              scale_factor)
                IN  /\ current_board' = board
                    /\ current_board_version' =
                          IF board.versions # <<>> THEN [index |-> 0] ELSE None
                    /\ raw_xy_data' = board.xy
                    /\ Redraws(IF board.versions # <<>>
                               THEN apply_version(fresh, board.versions[1]) ELSE fresh,
                               production_bom)
                    /\ diff_window' = None
                    /\ UNCHANGED <<rev, fp, production_bom, appBOM, scales>>

\* save_new_board_version (BOM_V2.py 907-936).  create: the answer to
\* "No board loaded. Create a new board?"; io: which save_to_xlsx call
\* fails, if any
save_new_board_version(create, io, timestamp, notes) ==
    /\ rev = "BOM_V2"
    /\ current_board # None => Len(current_board.versions) < MaxVersions
    /\ IF current_board = None /\ (~create \/ xy_data.keys = <<>> \/ io = "create_fails")
       THEN Fails
       ELSE LET board == IF current_board = None
                         THEN save_to_xlsx(new_board(NewBoardPath, raw_xy_data,
                                                     xy_data, scale_factor))
                         ELSE current_board
                appended == append_version_from_xy(board, xy_data, timestamp, notes)
            IN  /\ current_board' = IF io = "save_fails" THEN appended
                                    ELSE save_to_xlsx(appended)
                /\ current_board_version' =
                      IF current_board = None THEN None ELSE current_board_version
                /\ diff_window' = None
                /\ UNCHANGED <<rev, fp, xy_data, raw_xy_data, production_bom, appBOM, scales, boxes>>

\* show_board_version_diff, lines 985-992: the rows inserted into the tree
diff_row(ref, bomA, bomB) ==
    [ref |-> ref,
     A_val |-> IF Has(bomA, ref)
               THEN join_value_unit(Get(bomA, ref).value, Get(bomA, ref).unit) ELSE EmptyStr,
     B_val |-> IF Has(bomB, ref)
               THEN join_value_unit(Get(bomB, ref).value, Get(bomB, ref).unit) ELSE EmptyStr]

RECURSIVE diff_of(_, _, _)
diff_of(refs, bomA, bomB) ==
    IF refs = <<>> THEN <<>>
    ELSE LET row == diff_row(Head(refs), bomA, bomB)
         IN  (IF row.A_val # row.B_val THEN <<row>> ELSE <<>>)
             \o diff_of(Tail(refs), bomA, bomB)

show_board_version_diff(bomA, bomB) ==
    diff_of(Sorted(Keys(bomA) \cup Keys(bomB)), bomA, bomB)

\* compare_board_versions and its Compare button (BOM_V2.py 938-968);
\* idxA, idxB: the versions selected in the two boxes (the model selects
\* two different ones)
compare_board_versions(idxA, idxB) ==
    /\ rev = "BOM_V2"
    /\ IF current_board = None THEN Fails
       ELSE IF Len(current_board.versions) < 2 THEN Fails
       ELSE /\ idxA \in 0..(Len(current_board.versions) - 1)
            /\ idxB \in 0..(Len(current_board.versions) - 1)
            /\ diff_window' =
                  [idxA |-> idxA, idxB |-> idxB,
                   rows |-> show_board_version_diff(current_board.versions[idxA + 1],
                                                    current_board.versions[idxB + 1])]
            /\ UNCHANGED <<rev, fp, xy_data, raw_xy_data, production_bom, appBOM, appV2,
                           scales, boxes>>

-----------------------------------------------------------------------------
(* The next-state relations: one disjunct per handler *)

\* what save_to_xlsx does inside save_new_board_version
SaveOutcomes == {"ok", "create_fails", "save_fails"}

\* the handlers both revisions have
Shared ==
    \/ \E file \in XyFiles(rev) : load_xy_file(file)
    \/ \E preset \in ScaleInputs : set_scale(preset)
    \/ \E ref \in Keys(xy_data), input \in EditInputs, angle \in AngleInputs :
          save(ref, input, angle)
    \/ \E ref \in Keys(xy_data), angle \in AngleInputs : set_nc(ref, angle)

\* the handlers of LayoutApp alone
OnlyBOM ==
    \/ \E file \in ProductionFiles : load_production_bom_BOM(file)
    \/ clear_xy
    \/ clear_tuning_boms
    \/ clear_production_bom
    \/ \E file \in TuningFiles : load_tuning_bom_csv(file)
    \/ \E idx \in 0..(Len(tuning_boms) - 1) : select_tuning(idx)
    \/ apply_selected_tuning_bom_sidebar

\* the handlers of LayoutAppV2 alone
OnlyV2 ==
    \/ \E file \in ProductionFiles : load_production_bom_V2(file)
    \/ \E io_ok \in BOOLEAN : create_board(io_ok)
    \/ \E file \in BoardFiles : load_board_xlsx(file)
    \/ \E create \in BOOLEAN, io \in SaveOutcomes,
          timestamp \in Timestamps, notes \in NotesInputs :
          save_new_board_version(create, io, timestamp, notes)
    \/ \E idxA \in 0..MaxVersions, idxB \in 0..MaxVersions :
          idxA # idxB /\ compare_board_versions(idxA, idxB)

NextBOM == Shared \/ OnlyBOM

NextV2 == Shared \/ OnlyV2

Next == Shared \/ OnlyBOM \/ OnlyV2

\* LayoutApp (BOM.py) alone
SpecBOM == InitBOM /\ [][NextBOM]_vars

\* LayoutAppV2 (BOM_V2.py) alone
SpecV2 == InitV2 /\ [][NextV2]_vars

\* either revision
Spec == Init /\ [][Next]_vars

-----------------------------------------------------------------------------
(* Export of the production BOM.  The sheet that is written becomes fp, the  *)
(* file the next load dialog selects.                                        *)

hUnit == <<"U", "n", "i", "t">>

\* headers.index(name) + 1, or miss when index raises ValueError
headers_index(headers, name, miss) ==
    LET at == {c \in 1..Len(headers) : headers[c] = name}
    IN  IF at = {} THEN miss ELSE MinOf(at)

\* one data row of export_production_bom (BOM.py 526-531): ref, value and
\* unit are written in this order, a later write replaces an earlier one
export_row(ref, d, col_ref, col_val, col_unit) ==
    [c \in 1..MaxOf({col_ref, col_val, col_unit}) |->
        IF c = col_unit THEN d.unit
        ELSE IF c = col_val THEN d.value
        ELSE IF c = col_ref THEN ref
        ELSE EmptyStr]

\* the worksheet LayoutApp.export_production_bom writes (BOM.py 504-531)
exported_BOM(bom, headers) ==
    LET col_ref == headers_index(headers, hRef, 1)
        col_val == headers_index(headers, hValue, 2)
        col_unit == headers_index(headers, hUnit, 3)
    IN  <<headers>> \o
        [i \in 1..Len(bom.keys) |->
            export_row(bom.keys[i], Get(bom, bom.keys[i]), col_ref, col_val, col_unit)]

\* the worksheet LayoutAppV2.export_production_bom writes (BOM_V2.py 797-801)
exported_V2(entries) ==
    <<<<hRef, hValue, hUnit>>>> \o
    [i \in 1..Len(entries.keys) |->
        <<entries.keys[i], Get(entries, entries.keys[i]).value,
          Get(entries, entries.keys[i]).unit>>]

\* export_production_bom (BOM.py 491-534)
export_production_bom_BOM ==
    /\ rev = "BOM"
    /\ IF production_bom = None \/ production_bom = EmptyDict THEN Fails
       ELSE /\ fp' = Workbook(exported_BOM(production_bom, production_bom_headers))
            /\ UNCHANGED <<rev, xy_data, raw_xy_data, production_bom, appBOM, appV2,
                           scales, boxes, diff_window>>

\* export_production_bom (BOM_V2.py 785-803)
export_production_bom_V2 ==
    /\ rev = "BOM_V2"
    /\ IF production_bom = None THEN Fails
       ELSE /\ fp' = Workbook(exported_V2(production_bom.entries))
            /\ UNCHANGED <<rev, xy_data, raw_xy_data, production_bom, appBOM, appV2,
                           scales, boxes, diff_window>>

\* the files the production BOM dialog offers: *.xlsx
is_xlsx(file) == "csv" \notin DOMAIN file

\* Ingestion alone, in either revision: load_production_bom on one of the
\* production BOM workbooks, or load_tuning_bom_csv on one of the tuning files
NextIngest ==
    \/ is_xlsx(fp) /\ load_production_bom_BOM(fp)
    \/ is_xlsx(fp) /\ load_production_bom_V2(fp)
    \/ ~is_xlsx(fp) /\ load_tuning_bom_csv(fp)
    \/ export_production_bom_BOM
    \/ export_production_bom_V2

SpecIngest == InitIngest /\ [][NextIngest]_vars

-----------------------------------------------------------------------------
(* The Board class alone: a board is constructed by Board(path),            *)
(* load_from_xlsx or load_from_csv, then versions are appended to it.       *)

\* the most versions a board grows to in these runs
MaxBoardVersions == 4

\* board CSV files: [path, readable, fieldnames, rows], a row the cells
\* under the field names
CsvBoardA ==
    [path |-> <<"d">>, readable |-> TRUE,
     fieldnames |-> <<hReferenceID, <<"X">>, <<"Y">>, <<"A","n","g","l","e">>,
                      <<"V","0">>, <<"V","1">>>>,
     rows |-> <<<<rR1, <<"1">>, <<"2">>, <<"9","0">>, <<"1","0">>, <<"2","2">>>>,
                <<rC1, <<"x">>, <<"1">>, <<"0">>, <<"1">>, EmptyStr>>>>]

CsvBoardHeaderOnly ==
    [path |-> <<"e">>, readable |-> TRUE,
     fieldnames |-> <<<<"R","e","f">>, <<"X">>, <<"Y">>, <<"A","n","g","l","e">>, <<"v","0">>>>,
     rows |-> <<>>]

CsvBoardPlain ==
    [path |-> <<"f">>, readable |-> TRUE,
     fieldnames |-> <<hReferenceID, <<"X">>, <<"Y">>>>,
     rows |-> <<<<rR1, <<"1">>, <<"2">>>>>>]

CsvBoardEmpty == [path |-> <<"g">>, readable |-> TRUE, fieldnames |-> <<>>, rows |-> <<>>]

CsvBoardFiles == {CsvBoardA, CsvBoardHeaderOnly, CsvBoardPlain, CsvBoardEmpty}

\* working sets handed to append_version_from_xy
WorkingSetOf(value, unit, nc) ==
    Put(EmptyDict, rR1,
        [component(rR1, 100, 200, 90) EXCEPT !.value = value, !.unit = unit, !.nc = nc])

WorkingSets ==
    {EmptyDict,
     WorkingSetOf(<<"1","0">>, <<"O","h","m","s">>, FALSE),
     WorkingSetOf(EmptyStr, <<"n","F">>, FALSE),
     WorkingSetOf(EmptyStr, EmptyStr, TRUE)}

\* board = Board(path)
construct_Board ==
    /\ current_board = None
    /\ current_board' = Board(NewBoardPath)
    /\ UNCHANGED <<rev, fp, xy_data, raw_xy_data, production_bom, appBOM, scales,
                   current_board_version, boxes, diff_window>>

\* board = Board.load_from_xlsx(path); load_workbook raises on a bad file
construct_from_xlsx ==
    /\ current_board = None
    /\ fp \in BoardFiles
    /\ IF LoadedBoard[fp] = None THEN Fails
       ELSE /\ current_board' = LoadedBoard[fp]
            /\ UNCHANGED <<rev, fp, xy_data, raw_xy_data, production_bom, appBOM, scales,
                           current_board_version, boxes, diff_window>>

\* board = Board.load_from_csv(path)
construct_from_csv ==
    /\ current_board = None
    /\ fp \in CsvBoardFiles
    /\ current_board' = load_from_csv(fp.path, fp)
    /\ UNCHANGED <<rev, fp, xy_data, raw_xy_data, production_bom, appBOM, scales,
                   current_board_version, boxes, diff_window>>

\* board.append_version_from_xy(xy_data, timestamp, notes)
append_version(xy, timestamp, notes) ==
    /\ current_board # None
    /\ Len(current_board.versions) < MaxBoardVersions
    /\ current_board' = append_version_from_xy(current_board, xy, timestamp, notes)
    /\ UNCHANGED <<rev, fp, xy_data, raw_xy_data, production_bom, appBOM, scales,
                   current_board_version, boxes, diff_window>>

InitBoard == rev = "BOM_V2" /\ fp \in BoardFiles \cup CsvBoardFiles /\ Start

NextBoard ==
    \/ construct_Board
    \/ construct_from_xlsx
    \/ construct_from_csv
    \/ \E xy \in WorkingSets, timestamp \in Timestamps, notes \in NotesInputs :
          append_version(xy, timestamp, notes)

SpecBoard == InitBoard /\ [][NextBoard]_vars

-----------------------------------------------------------------------------

(* Properties *)

\* the refs of the working set
Components == Keys(xy_data)

\* the reference (production BOM) table: ref -> entry
Reference ==
    IF production_bom = None THEN EmptyDict
    ELSE IF rev = "BOM" THEN production_bom
    ELSE production_bom.entries

\* the reference table has an entry for ref with a non-empty value or unit
HasReference(ref) ==
    /\ Has(Reference, ref)
    /\ (Get(Reference, ref).value # EmptyStr \/ Get(Reference, ref).unit # EmptyStr)

\* live (value, unit) equals the reference (value, unit) field by field
\* after trimming
EqualsReference(ref) ==
    /\ Strip(xy_data.map[ref].value) = Strip(Get(Reference, ref).value)
    /\ Strip(xy_data.map[ref].unit) = Strip(Get(Reference, ref).unit)

\* C1 as stated: every component whose nc flag is true is drawn with status
\* ok (no highlight) and with empty value and unit, whatever the production
\* BOM contains.
C1_NcIsOk ==
    \A ref \in Components :
        xy_data.map[ref].nc =>
            /\ boxes[ref].highlight = NoHighlight
            /\ boxes[ref].value = EmptyStr
            /\ boxes[ref].unit = EmptyStr

\* C1 amended: every component whose nc flag is true is drawn with status
\* missing (never mismatch, never ok), whatever the production BOM contains,
\* and with empty value and unit.
C1_NcIsMissing ==
    \A ref \in Components :
        xy_data.map[ref].nc =>
            /\ boxes[ref].highlight = "missing"
            /\ boxes[ref].value = EmptyStr
            /\ boxes[ref].unit = EmptyStr

\* an N/C component whose ref the production BOM lists with a value, drawn
C1_Witness ==
    \E ref \in Components :
        /\ xy_data.map[ref].nc
        /\ HasReference(ref)
        /\ Get(Reference, ref).value # EmptyStr
        /\ boxes[ref].highlight = "missing"

\* the status the ordered rule of C2 gives a component that is not N/C
C2_Rule(ref) ==
    IF xy_data.map[ref].value = EmptyStr THEN "missing"
    ELSE IF HasReference(ref) /\ ~EqualsReference(ref) THEN "mismatch"
    ELSE NoHighlight

\* C2: a component that is not N/C is drawn with the status of the ordered
\* rule: missing if the live value is empty; otherwise mismatch if the
\* production BOM has an entry for the ref with a non-empty value or unit
\* that the live (value, unit) does not equal field by field after trimming;
\* otherwise ok.  In particular a live ('0', 'Ohms') is never missing, a live
\* entry equal to the reference is ok, and a live ('4.7', 'Ohms') against
\* the reference ('4700', 'Ohms') is mismatch.
C2_OrderedRule ==
    \A ref \in Components :
        ~xy_data.map[ref].nc =>
            LET live == xy_data.map[ref]
            IN  /\ boxes[ref].highlight = C2_Rule(ref)
                /\ (live.value = sZero /\ live.unit = sOhms)
                      => boxes[ref].highlight # "missing"
                /\ (live.value # EmptyStr /\ HasReference(ref) /\ EqualsReference(ref))
                      => boxes[ref].highlight = NoHighlight
                /\ (/\ live.value = <<"4", ".", "7">> /\ live.unit = sOhms
                    /\ Has(Reference, ref)
                    /\ Get(Reference, ref).value = <<"4", "7", "0", "0">>
                    /\ Get(Reference, ref).unit = sOhms)
                      => boxes[ref].highlight = "mismatch"

\* a live ('4.7', 'Ohms') drawn as mismatch against the reference
\* ('4700', 'Ohms'), next to a live value drawn ok because the reference
\* entry of its ref has neither value nor unit
C2_Witness ==
    /\ \E ref \in Components :
          /\ ~xy_data.map[ref].nc
          /\ xy_data.map[ref].value = <<"4", ".", "7">>
          /\ xy_data.map[ref].unit = sOhms
          /\ Has(Reference, ref)
          /\ Get(Reference, ref).value = <<"4", "7", "0", "0">>
          /\ boxes[ref].highlight = "mismatch"
    /\ \E ref \in Components :
          /\ ~xy_data.map[ref].nc
          /\ Has(Reference, ref)
          /\ ~HasReference(ref)
          /\ xy_data.map[ref].value # EmptyStr
          /\ boxes[ref].highlight = NoHighlight

\* C3: in LayoutAppV2, when a production BOM is loaded, every component
\* that was marked N/C and whose ref the loaded BOM contains still has an
\* empty stored value and unit and a true nc flag afterwards.
C3_NcSurvivesBomLoad ==
    [][\A file \in ProductionFiles :
          (ParsedV2[file] # None /\ load_production_bom_V2(file)) =>
              \A ref \in Components :
                  (xy_data.map[ref].nc /\ Has(ParsedV2[file].entries, ref)) =>
                      /\ xy_data'.map[ref].value = EmptyStr
                      /\ xy_data'.map[ref].unit = EmptyStr
                      /\ xy_data'.map[ref].nc]_vars

\* C4: in LayoutApp, in every reachable state every component whose nc flag
\* is true has an empty value and an empty unit in xy_data.
C4_NcHasNoValue ==
    rev = "BOM" =>
        \A ref \in Components :
            xy_data.map[ref].nc =>
                xy_data.map[ref].value = EmptyStr /\ xy_data.map[ref].unit = EmptyStr

\* an N/C component of LayoutApp whose ref the loaded production BOM and a
\* loaded tuning BOM both list with a value
C4_Witness ==
    /\ rev = "BOM"
    /\ \E ref \in Components :
          /\ xy_data.map[ref].nc
          /\ HasReference(ref)
          /\ \E idx \in DOMAIN tuning_boms :
                Has(tuning_boms[idx], ref) /\ Get(tuning_boms[idx], ref).value # EmptyStr
    /\ \E ref \in Components : ~xy_data.map[ref].nc /\ xy_data.map[ref].value # EmptyStr

\* C5: every ref that appears in any version of the current board also
\* appears in that board's placements (board.xy).
C5_VersionRefsArePlaced ==
    current_board # None =>
        \A idx \in DOMAIN current_board.versions :
            Keys(current_board.versions[idx]) \subseteq Keys(current_board.xy)

\* a step of a handler that replaces the current board by another one
ReplacesBoard ==
    \/ \E io_ok \in BOOLEAN : create_board(io_ok)
    \/ \E file \in BoardFiles : load_board_xlsx(file)

\* C6: the version list of a board is append-only: no operation on the
\* current board changes the entries of a version it holds, removes it or
\* moves it; the old list stays a prefix of the new one.
C6_AppendOnly ==
    [][(current_board # None /\ ~ReplacesBoard) =>
          /\ current_board' # None
          /\ Len(current_board'.versions) >= Len(current_board.versions)
          /\ SubSeq(current_board'.versions, 1, Len(current_board.versions))
                = current_board.versions]_vars

\* a board with two versions that differ, while the working set holds values
\* that no version of the board recorded
C6_Witness ==
    /\ current_board # None
    /\ Len(current_board.versions) = 2
    /\ current_board.versions[1] # current_board.versions[2]
    /\ current_board.versions[1] # EmptyDict
    /\ production_bom # None
    /\ \E ref \in Components :
          /\ ~xy_data.map[ref].nc
          /\ xy_data.map[ref].value # EmptyStr
          /\ \A idx \in DOMAIN current_board.versions :
                ~Has(current_board.versions[idx], ref)
                \/ Get(current_board.versions[idx], ref).value
                      # Strip(xy_data.map[ref].value)

\* the refs C7 says a new version stores
C7_Stored ==
    {ref \in Components :
        /\ ~xy_data.map[ref].nc
        /\ (Strip(xy_data.map[ref].value) # EmptyStr \/ Strip(xy_data.map[ref].unit) # EmptyStr)}

\* C7: the version that save_new_board_version appends through
\* append_version_from_xy holds exactly the refs of the working set whose nc
\* flag is false and whose value or unit is non-empty after trimming, each
\* with its trimmed value and unit, and no other ref.
C7_AppendStoresLiveEntries ==
    [][\A create \in BOOLEAN, io \in SaveOutcomes,
          timestamp \in Timestamps, notes \in NotesInputs :
          (/\ save_new_board_version(create, io, timestamp, notes)
           /\ current_board' # current_board) =>
              LET new == current_board'.versions[Len(current_board'.versions)]
              IN  /\ Keys(new) = C7_Stored
                  /\ \A ref \in Keys(new) :
                        Get(new, ref) = [value |-> Strip(xy_data.map[ref].value),
                                         unit |-> Strip(xy_data.map[ref].unit)]]_vars

\* the last version of the board holds the trimmed text of a live value that
\* has blanks around it
C7_Witness ==
    /\ current_board # None
    /\ current_board.versions # <<>>
    /\ LET new == current_board.versions[Len(current_board.versions)]
       IN  \E ref \in Components :
              /\ Has(new, ref)
              /\ xy_data.map[ref].value # Strip(xy_data.map[ref].value)
              /\ Get(new, ref).value = Strip(xy_data.map[ref].value)

\* C8: the versions of the current board are named V0, V1, ... in order:
\* each name is 'V' followed by the zero-based position of its version, so
\* no name is repeated.
C8_SequentialNames ==
    current_board # None =>
        /\ Len(current_board.version_names) = Len(current_board.versions)
        /\ \A idx \in DOMAIN current_board.version_names :
              current_board.version_names[idx] = version_name(idx - 1)

\* value followed by unit for ref in a version; empty text when ref is absent
Concatenation(bom, ref) ==
    IF Has(bom, ref) THEN Get(bom, ref).value \o Get(bom, ref).unit ELSE EmptyStr

\* the refs the open diff window lists
DiffRefs == {diff_window.rows[i].ref : i \in DOMAIN diff_window.rows}

\* the two versions the open diff window compares
DiffA == current_board.versions[diff_window.idxA + 1]

DiffB == current_board.versions[diff_window.idxB + 1]

\* C9: the diff of versions A and B lists a ref if and only if the
\* concatenation of value and unit for the ref in A differs, as exact text,
\* from that in B, a ref absent from a version counting as empty text.
C9_DiffListsExactlyDifferingRefs ==
    diff_window # None =>
        \A ref \in Keys(DiffA) \cup Keys(DiffB) :
            ref \in DiffRefs <=> Concatenation(DiffA, ref) # Concatenation(DiffB, ref)

\* C10: every ref present in exactly one of the two compared versions
\* appears in the diff, with the side of the version that lacks it empty.
C10_DiffListsOneSidedRefs ==
    diff_window # None =>
        /\ \A ref \in Keys(DiffA) \ Keys(DiffB) :
              \E i \in DOMAIN diff_window.rows :
                  diff_window.rows[i].ref = ref /\ diff_window.rows[i].B_val = EmptyStr
        /\ \A ref \in Keys(DiffB) \ Keys(DiffA) :
              \E i \in DOMAIN diff_window.rows :
                  diff_window.rows[i].ref = ref /\ diff_window.rows[i].A_val = EmptyStr

-----------------------------------------------------------------------------
(* Ingestion of a production BOM row, stated on the cells of the row *)

\* the reference, value and Type cells of the data row of a one-row workbook
RefCell(file) == file.rows[2][1]

ValueCell(file) == file.rows[2][2]

TypeCell(file) == file.rows[2][3]

\* the separators of a reference cell
Separators == {",", ";", "/", " "}

\* the maximal separator-free tokens of a text, left to right
RECURSIVE TokensFrom(_, _)
TokensFrom(s, cur) ==
    IF s = <<>> THEN (IF cur = <<>> THEN <<>> ELSE <<cur>>)
    ELSE IF Head(s) \in Separators
         THEN (IF cur = <<>> THEN <<>> ELSE <<cur>>) \o TokensFrom(Tail(s), <<>>)
         ELSE TokensFrom(Tail(s), Append(cur, Head(s)))

Tokens(s) == TokensFrom(s, <<>>)

\* the refs of the row
Refs(file) == Range(Tokens(RefCell(file)))

\* the digits and decimal points of a text
NumericText(s) == SelectSeq(s, LAMBDA ch : ch \in Digits \cup {"."})

\* the Type cell names a resistor
TypedResistor(file) == Contains(Lower(TypeCell(file)), <<"r", "e", "s">>)

\* the value text names the unit Ohms: it holds "ohm" or ends with "r"
ResolvesToOhms(s) ==
    Contains(Lower(s), <<"o", "h", "m">>) \/ EndsWith(Lower(Strip(s)), <<"r">>)

\* every ref of the row has the entry (value, unit) in the table
RowGives(bom, file, value, unit) ==
    \A ref \in Refs(file) :
        Has(bom, ref) /\ Get(bom, ref).value = value /\ Get(bom, ref).unit = unit

\* a one-row workbook has been ingested by LayoutApp (BOM.py)
IngestedRowBOM == rev = "BOM" /\ fp \in RowSheets /\ production_bom # None

\* a one-row workbook has been ingested by LayoutAppV2 (BOM_V2.py)
IngestedRowV2 == rev = "BOM_V2" /\ fp \in RowSheets /\ production_bom # None

\* C11: in parse_production_bom (BOM.py) a row whose numeric text is exactly
\* "0" gives every ref of the row value "" and unit "", except that a row
\* whose Type cell names a resistor and whose value text resolves to Ohms
\* gives every ref value "0" and unit "Ohms"; the ref prefix plays no part.
C11_ZeroPolicy ==
    (IngestedRowBOM /\ NumericText(ValueCell(fp)) = sZero)
    => IF TypedResistor(fp) /\ ResolvesToOhms(ValueCell(fp))
       THEN RowGives(production_bom, fp, sZero, sOhms)
       ELSE RowGives(production_bom, fp, EmptyStr, EmptyStr)

\* a zero-ohm row with four refs, typed as a resistor, has been ingested
C11_Witness ==
    /\ IngestedRowBOM
    /\ NumericText(ValueCell(fp)) = sZero
    /\ TypedResistor(fp)
    /\ ResolvesToOhms(ValueCell(fp))
    /\ Cardinality(Refs(fp)) = 4
    /\ RowGives(production_bom, fp, sZero, sOhms)

\* C12: in ProductionBOM.from_xlsx (BOM_V2.py) a zero value on a row typed
\* as a resistor whose value text names Ohms ("0R", "0 Ohm") is kept as
\* value "0", unit "Ohms"; any other zero row gives value "" and unit "".
C12_ZeroOhmKept ==
    (IngestedRowV2 /\ NumericText(ValueCell(fp)) = sZero)
    => IF TypedResistor(fp) /\ ResolvesToOhms(ValueCell(fp))
       THEN RowGives(production_bom.entries, fp, sZero, sOhms)
       ELSE RowGives(production_bom.entries, fp, EmptyStr, EmptyStr)

\* the table of the last production BOM load: ref -> entry
Table == IF rev = "BOM" THEN production_bom ELSE production_bom.entries

\* a one-row workbook has been ingested by either revision
IngestedRow == fp \in RowSheets /\ production_bom # None

\* the component type the first character of a ref stands for
IsResistorRef(ref) == ref # <<>> /\ ref[1] \in {"R", "r"}

IsCapacitorRef(ref) == ref # <<>> /\ ref[1] \in {"C", "c"}

IsInductorRef(ref) == ref # <<>> /\ ref[1] \in {"L", "l"}

\* a decimal number: digits with at most one point among them
IsDecimal(s) ==
    /\ s # <<>>
    /\ Range(s) \subseteq Digits \cup {"."}
    /\ Range(s) \cap Digits # {}
    /\ Cardinality({i \in 1..Len(s) : s[i] = "."}) <= 1

\* the text without its leading zeros, "0" when nothing else is left
RECURSIVE Unpadded(_)
Unpadded(s) ==
    IF Len(s) > 1 /\ Head(s) = "0" THEN Unpadded(Tail(s)) ELSE s

\* a decimal number with at most three decimals, times 1000, as text
TimesThousand(s) ==
    LET point == IF "." \in Range(s) THEN CHOOSE i \in 1..Len(s) : s[i] = "." ELSE Len(s) + 1
        whole == SubSeq(s, 1, point - 1)
        decimals == SubSeq(s, point + 1, Len(s))
    IN  Unpadded(whole \o decimals \o [i \in 1..(3 - Len(decimals)) |-> "0"])

\* the value text without its last character
Front(s) == SubSeq(s, 1, Len(s) - 1)

\* C13: a resistor value text made of a decimal number followed by "k" is
\* ingested, by parse_production_bom and by ProductionBOM.from_xlsx, as the
\* number times 1000 with unit "Ohms": R1, "4.7k" gives ("4700", "Ohms").
C13_KiloOhms ==
    (/\ IngestedRow
     /\ ValueCell(fp) # <<>>
     /\ LowerCh(ValueCell(fp)[Len(ValueCell(fp))]) = "k"
     /\ IsDecimal(Front(ValueCell(fp)))
     /\ \A ref \in Refs(fp) : IsResistorRef(ref))
    => RowGives(Table, fp, TimesThousand(Front(ValueCell(fp))), sOhms)

\* the unit a value text ends with, in canonical spelling, for a component
\* of the type the ref stands for; "" when it ends with none
TrailingUnit(ref, text) ==
    LET s == Lower(Strip(text))
    IN  IF IsCapacitorRef(ref) /\ EndsWith(s, <<"p", "f">>) THEN sPF
        ELSE IF IsCapacitorRef(ref) /\ EndsWith(s, <<"n", "f">>) THEN sNF
        ELSE IF IsCapacitorRef(ref) /\ EndsWith(s, <<"u", "f">>) THEN sUF
        ELSE IF IsInductorRef(ref) /\ EndsWith(s, <<"n", "h">>) THEN sNH
        ELSE IF IsInductorRef(ref) /\ EndsWith(s, <<"u", "h">>) THEN sUH
        ELSE IF IsResistorRef(ref) /\ (\/ EndsWith(s, <<"r">>)
                                       \/ EndsWith(s, <<"o", "h", "m">>)
                                       \/ EndsWith(s, <<"o", "h", "m", "s">>)) THEN sOhms
        ELSE EmptyStr

\* the row has a value that is neither without digits nor exactly zero
HasValue(file) == NumericText(ValueCell(file)) \notin {EmptyStr, sZero}

\* C14: a value text that ends with a unit token of the component's type
\* (pF, nF, uF for a capacitor, nH, uH for an inductor, r or ohm(s) for a
\* resistor, in any case) is ingested with that unit in canonical spelling:
\* C1, "10pF" gives ("10", "pF").
C14_TrailingUnitKept ==
    (IngestedRow /\ HasValue(fp))
    => \A ref \in Refs(fp) :
          TrailingUnit(ref, ValueCell(fp)) # EmptyStr
          => Has(Table, ref) /\ Get(Table, ref).unit = TrailingUnit(ref, ValueCell(fp))

\* the default unit of the component type the first character of a ref
\* stands for: "" for an unknown type
DefaultUnit(ref) ==
    IF IsCapacitorRef(ref) THEN sNF
    ELSE IF IsResistorRef(ref) THEN sOhms
    ELSE IF IsInductorRef(ref) THEN sNH
    ELSE EmptyStr

\* the refs of the row are components of one type
OneType(file) == \A r1, r2 \in Refs(file) : DefaultUnit(r1) = DefaultUnit(r2)

\* C15: a purely numeric, non-zero value text without a unit token is
\* ingested with the default unit of the ref's component type, taken from
\* the first character of the ref in either case: C gives nF, R gives Ohms,
\* L gives nH and any other character the empty unit.
C15_DefaultUnitOfRef ==
    (IngestedRow /\ IsDecimal(Strip(ValueCell(fp))) /\ HasValue(fp) /\ OneType(fp))
    => \A ref \in Refs(fp) :
          /\ Has(Table, ref)
          /\ Get(Table, ref).value = Strip(ValueCell(fp))
          /\ Get(Table, ref).unit = DefaultUnit(ref)

\* C16: a value text without any digit, the empty value cell included, is
\* ingested as value "" and unit "" for every ref of the row, whatever the
\* ref prefix.
C16_NoDigitsNoEntry ==
    (IngestedRow /\ Range(ValueCell(fp)) \cap Digits = {})
    => RowGives(Table, fp, EmptyStr, EmptyStr)

\* the space-separated tokens of a value text
ValueTokens(s) == SelectSeq(Split(s, " "), LAMBDA t : t # <<>>)

\* the last of them
LastValueToken(s) == ValueTokens(s)[Len(ValueTokens(s))]

\* C17: of a value cell made of several space-separated tokens ("0402 10nF")
\* only the last token is parsed: the value is the numeric text of the last
\* token, and no digit of an earlier token is part of it.
C17_LastTokenOnly ==
    (/\ IngestedRow
     /\ Len(ValueTokens(ValueCell(fp))) > 1
     /\ NumericText(LastValueToken(ValueCell(fp))) \notin {EmptyStr, sZero})
    => \A ref \in Refs(fp) :
          Has(Table, ref)
          /\ Get(Table, ref).value = NumericText(LastValueToken(ValueCell(fp)))

\* C18: the refs taken from a reference cell are exactly its maximal tokens
\* free of ",", ";", "/" and space, empty tokens dropped, in left-to-right
\* order: "R4, R5/R6 R7" gives R4, R5, R6, R7.
C18_RefsAreTokens ==
    IngestedRow => Table.keys = Tokens(RefCell(fp))

\* a reference cell holding three kinds of separator has been ingested
C18_Witness ==
    /\ IngestedRow
    /\ {",", "/", " "} \subseteq Range(RefCell(fp))
    /\ Table.keys = <<<<"R", "4">>, <<"R", "5">>, <<"R", "6">>, <<"R", "7">>>>

\* the row the header of a moved-header workbook is in
HeaderRowOf(file) == CHOOSE n \in HeaderRows : file = HeaderSheet(n)

\* the table read with the reference column 2 and the value column 3 of the
\* moved-header workbook
ReadByColumns ==
    /\ production_bom # None
    /\ Table.keys = <<rR1, rC1>>
    /\ Get(Table, rR1).value = <<"4", ".", "7">>
    /\ Get(Table, rC1).value = <<"1", "0">>

\* C19 as stated: with its header row at row 1 or at row 15 the workbook
\* resolves the same ref and value columns, and with the header row at row
\* 25 the header is not found.
C19_HeaderWithinWindow ==
    fp \in HeaderSheets
    => /\ (HeaderRowOf(fp) \in {1, 15} /\ production_bom # None) => ReadByColumns
       /\ HeaderRowOf(fp) = 25 => production_bom = None

\* C19, amended: with its header row anywhere in rows 1..59 the workbook
\* resolves the same ref and value columns, and with the header row at row
\* 60 the header is not found and nothing is loaded.
C19_HeaderWithinScan ==
    fp \in HeaderSheets
    => /\ (HeaderRowOf(fp) <= HeaderScanLast /\ production_bom # None) => ReadByColumns
       /\ HeaderRowOf(fp) > HeaderScanLast => production_bom = None

\* the workbook with its header row at the last scanned row has been read
C19_Witness ==
    /\ fp \in HeaderSheets
    /\ HeaderRowOf(fp) = HeaderScanLast
    /\ ReadByColumns

-----------------------------------------------------------------------------
(* Failed loads *)

\* a load that fails: the production BOM workbook cannot be opened or has no
\* header row, or the XY file or the board file cannot be read
FailedLoad ==
    \/ \E file \in ProductionFiles :
          parsed_BOM(file).bom = None /\ load_production_bom_BOM(file)
    \/ \E file \in ProductionFiles :
          parsed_V2(file) = None /\ load_production_bom_V2(file)
    \/ \E file \in XyFiles(rev) : ~file.readable /\ load_xy_file(file)
    \/ \E file \in BoardFiles : ~file.readable /\ load_board_xlsx(file)

\* C20: a load that fails leaves the production BOM, the current board and
\* the working set (every component's value, unit, position and nc flag) as
\* they were before the load.
C20_FailedLoadKeepsState ==
    [][FailedLoad =>
          UNCHANGED <<production_bom, production_bom_headers, current_board,
                      current_board_version, xy_data, raw_xy_data>>]_vars

\* there is something to lose: a board, a production BOM and a component
\* with a value are loaded
C20_Witness ==
    /\ current_board # None
    /\ production_bom # None
    /\ \E ref \in Components : xy_data.map[ref].value # EmptyStr

-----------------------------------------------------------------------------
(* The table built from the rows of a production BOM *)

\* C21: every ref expanded from one data row gets the same entry, and a row
\* whose reference cell is empty adds no entry and does not keep the rows
\* after it from being read.
C21_RowLevelEntries ==
    /\ IngestedRow
       => /\ Refs(fp) \subseteq Keys(Table)
          /\ \A r1, r2 \in Refs(fp) : Get(Table, r1) = Get(Table, r2)
    /\ (fp = BlankRowSheet /\ production_bom # None)
       => /\ Table.keys = <<rR1, rC1>>
          /\ Get(Table, rC1).value = <<"1">>

\* the workbook with the empty reference cell has been ingested, and so
\* has the row after the empty cell
C21_Witness ==
    /\ fp = BlankRowSheet
    /\ production_bom # None
    /\ Has(Table, rC1)

-----------------------------------------------------------------------------
(* A ref that occurs in several rows of a BOM source                        *)

\* the tuning BOM that the latest load appended
Latest(boms) == boms[Len(boms)]

\* C22: when a ref occurs in several data rows of a BOM source the table
\* holds for it what the last of these rows gives, and the load succeeds.
\* R1 stands in the first and in the last row that names it; R2 stands only
\* next to R1 in that last row (production BOM) or in a row with the same
\* value after it (tuning BOM), so R1 must carry the entry of R2.
C22_LastWriteWins ==
    /\ (fp \in RepeatSheets /\ production_bom # None)
       => /\ Table.keys = <<rR1, rC1, rR2>>
          /\ Get(Table, rR1) = Get(Table, rR2)
    /\ (fp \in IngestTuning /\ tuning_boms # <<>>)
       => /\ Latest(tuning_boms).keys = <<rR1, rC1, rR2>>
          /\ Get(Latest(tuning_boms), rR1) = Get(Latest(tuning_boms), rR2)

C22_Witness ==
    /\ fp = RepeatSheet(<<"1", "0">>, <<"2", "2">>)
    /\ production_bom # None
    /\ Get(Table, rR1).value = <<"2", "2">>

\* the tuning loader on a file that repeats a ref
C22_WitnessTuning ==
    /\ fp = TuningRepeat(<<"1", "0">>, <<"2", "2">>)
    /\ tuning_boms # <<>>
    /\ Get(Latest(tuning_boms), rR1).value = <<"2", "2">>

\* the first expanded ref of a reference cell: its first non-empty trimmed token
FirstRef(file) == Tokens(RefCell(file))[1]

\* C23: the unit inferred for a row is the default unit of the type of its
\* first expanded ref, the first non-empty trimmed token of the reference
\* cell, and every ref of the row carries it, also when the cell begins
\* with a separator or a space.
C23_FirstRefType ==
    (IngestedRow /\ IsDecimal(Strip(ValueCell(fp))) /\ HasValue(fp))
    => \A ref \in Refs(fp) :
          /\ Has(Table, ref)
          /\ Get(Table, ref).unit = DefaultUnit(FirstRef(fp))

-----------------------------------------------------------------------------
(* Export of the production BOM and re-import of the exported sheet         *)

\* the table of a production BOM object of the running revision
TableOf(bom) == IF rev = "BOM" THEN bom ELSE bom.entries

\* the ref -> (value, unit) mapping of a table
Mapping(table) ==
    [ref \in Keys(table) |-> <<Get(table, ref).value, Get(table, ref).unit>>]

\* fp is the sheet export_production_bom writes for the table that is loaded
Exported ==
    /\ production_bom # None
    /\ fp = Workbook(IF rev = "BOM"
                     THEN exported_BOM(production_bom, production_bom_headers)
                     ELSE exported_V2(production_bom.entries))

\* C24: a load of the sheet exported from the loaded table, by the same
\* parser, gives the same ref -> (value, unit) mapping, string-exact.
C24_RoundTrip ==
    [][Exported => Mapping(TableOf(production_bom')) = Mapping(TableOf(production_bom))]_vars

\* the refs of the data rows of an exported sheet, top to bottom
ListedRefs(file) ==
    LET ws == file.rows
        col == CHOOSE c \in 1..Len(ws[1]) : ws[1][c] = hRef
    IN  [i \in 1..(Len(ws) - 1) |-> ws[i + 1][col]]

\* a listing of refs in ascending order
Ascending(refs) == \A i, j \in 1..Len(refs) : i < j => StrLess(refs[i], refs[j])

\* C25: an exported listing writes its data rows in ascending ref order,
\* whatever the order in which the refs were inserted into the table; here
\* the sheet that export_production_bom writes.
C25_ExportSorted == Exported => Ascending(ListedRefs(fp))

-----------------------------------------------------------------------------
(* Redraw twice                                                             *)

\* the status redraw gives every component
Statuses(bx) == [ref \in DOMAIN bx |-> bx[ref].highlight]

\* C26: a redraw with no operation in between gives every component the
\* status it has, and leaves the working set and the production BOM as they
\* are: the state every handler leaves is a fixed point of redraw, and so
\* is the state after that redraw.
C26_RedrawIdempotent ==
    LET again == redraw(rev, xy_data, production_bom)
        twice == redraw(rev, again.xy_data, production_bom)
    IN  /\ again.xy_data = xy_data
        /\ Statuses(again.boxes) = Statuses(boxes)
        /\ twice = again

\* a component that the redraw gave a default unit, drawn as a mismatch
C26_Witness ==
    \E ref \in Keys(xy_data) :
        /\ boxes[ref].highlight = "mismatch"
        /\ xy_data.map[ref].unit = DefaultUnit(ref)
        /\ raw_xy_data # EmptyDict

-----------------------------------------------------------------------------
(* The order of loading the XY file and the production BOM                  *)

\* the step loads an XY file: the working set is the redrawn content of one
XyLoadStep ==
    \E file \in XyFiles(rev) \ {Unreadable} :
        /\ raw_xy_data' = ParsedXy[file][scale_factor].raw_data
        /\ xy_data' = redraw(rev, ParsedXy[file][scale_factor].data, production_bom).xy_data

\* the step loads a production BOM
BomLoadStep == production_bom' # None /\ production_bom' # production_bom

\* every component that is not N/C and has an entry in the table carries
\* the value and the unit of the entry
Carries(xy, table) ==
    \A ref \in Keys(xy) :
        (~xy.map[ref].nc /\ Has(table, ref))
        => /\ xy.map[ref].value = Get(table, ref).value
           /\ xy.map[ref].unit = Get(table, ref).unit

\* the same, with the unit redraw stores for an entry that has a value and
\* no unit: the default unit of the ref
CarriesDrawn(xy, table) ==
    \A ref \in Keys(xy) :
        (~xy.map[ref].nc /\ Has(table, ref))
        => /\ xy.map[ref].value = Get(table, ref).value
           /\ xy.map[ref].unit =
                 IF Get(table, ref).value # EmptyStr /\ Get(table, ref).unit = EmptyStr
                 THEN DefaultUnit(ref)
                 ELSE Get(table, ref).unit

\* no component has a value or a unit
AllEmpty(xy) ==
    \A ref \in Keys(xy) : xy.map[ref].value = EmptyStr /\ xy.map[ref].unit = EmptyStr

\* C27 as stated: once an XY file and a production BOM are both loaded, in
\* either order, every component that is not N/C and whose ref is in the
\* BOM carries the BOM's value and unit.
C27_OrderIndependent ==
    [][((XyLoadStep \/ BomLoadStep) /\ production_bom' # None /\ xy_data'.keys # <<>>)
       => Carries(xy_data', TableOf(production_bom'))]_vars

\* C27, amended: the load of a production BOM gives every component that is
\* not N/C and whose ref is in the BOM the BOM's value and unit (the default
\* unit of the ref where the BOM has a value without a unit); the load of an
\* XY file gives every component the empty value and unit, whether or not a
\* production BOM is loaded.
C27_BomLoadApplies ==
    [][/\ BomLoadStep => CarriesDrawn(xy_data', TableOf(production_bom'))
       /\ XyLoadStep => AllEmpty(xy_data')]_vars

\* a production BOM is loaded and a component carries the value of its entry
C27_Witness ==
    /\ production_bom # None
    /\ \E ref \in Keys(xy_data) :
          /\ ~xy_data.map[ref].nc
          /\ Has(TableOf(production_bom), ref)
          /\ Get(TableOf(production_bom), ref).value # EmptyStr
          /\ xy_data.map[ref].value = Get(TableOf(production_bom), ref).value
          /\ xy_data.map[ref].unit = Get(TableOf(production_bom), ref).unit

-----------------------------------------------------------------------------
(* The board file: save_to_xlsx, then load_from_xlsx                        *)

\* the board load_from_xlsx reads from the file save_to_xlsx writes
Reloaded(board) ==
    load_from_xlsx(board.path,
                   [path |-> board.path, readable |-> TRUE, rows |-> saved_xlsx(board)])

\* the board was made by create board, with versions from save new board version
CreatedBoard ==
    /\ current_board # None
    /\ current_board.path = NewBoardPath
    /\ current_board.xy.keys # <<>>

\* C28: a board made by create board and save new board version, saved and
\* loaded again, has the same placed refs, the same version names in the
\* same order, and in every version the same ref -> (value, unit) mapping.
C28_BoardRoundTrip ==
    CreatedBoard
    => LET saved == save_to_xlsx(current_board)
           loaded == Reloaded(current_board)
       IN  /\ Keys(loaded.xy) = Keys(saved.xy)
           /\ loaded.version_names = saved.version_names
           /\ Len(loaded.versions) = Len(saved.versions)
           /\ \A i \in 1..Len(saved.versions) :
                 Mapping(loaded.versions[i]) = Mapping(saved.versions[i])

-----------------------------------------------------------------------------
(* The three lists of a Board                                               *)

\* C29: in a board constructed by Board(path), load_from_xlsx or
\* load_from_csv and grown by append_version_from_xy, the lists versions,
\* version_names and version_meta have the same length.
C29_ListsAligned ==
    current_board # None
    => /\ Len(current_board.versions) = Len(current_board.version_names)
       /\ Len(current_board.versions) = Len(current_board.version_meta)

-----------------------------------------------------------------------------
(* The unit redraw stores                                                   *)

\* the ref starts with R, C or L, in either case
HasDefaultUnit(ref) == IsResistorRef(ref) \/ IsCapacitorRef(ref) \/ IsInductorRef(ref)

\* C30: after every operation every component that is not N/C, has a value
\* and whose ref starts with R, C or L has a unit stored, also when the
\* user saved it with an empty unit.
C30_UnitStored ==
    \A ref \in Keys(xy_data) :
        (/\ ~xy_data.map[ref].nc
         /\ xy_data.map[ref].value # EmptyStr
         /\ HasDefaultUnit(ref))
        => xy_data.map[ref].unit # EmptyStr

\* with nothing but an XY file loaded, a component saved in the editor with
\* a value has the default unit of its ref
C30_Witness ==
    \E ref \in Keys(xy_data) :
        /\ ~xy_data.map[ref].nc
        /\ xy_data.map[ref].value # EmptyStr
        /\ xy_data.map[ref].unit = DefaultUnit(ref)
        /\ HasDefaultUnit(ref)
        /\ production_bom = None
        /\ tuning_boms = <<>>
        /\ current_board = None

=============================================================================
